---- MODULE Spec2Model ----
(***************************************************************************)
(* Notification ingestion and enrichment pipeline of Discord-Feed          *)
(* (main/discordRpcService.js with main/openAiService.js).                 *)
(*                                                                         *)
(* One action is one turn of the Node event loop: a handler or a promise   *)
(* continuation together with the microtasks it queues, which run before   *)
(* any other event, IPC request or backend reply is looked at.  A backend  *)
(* request (fetch) is the only suspension that spans turns; between the    *)
(* request and its reply any other action may run.                         *)
(*                                                                         *)
(* Message ids are Discord snowflakes: the connector hands out a fresh id  *)
(* per event, numbered here in the order the events are received.          *)
(***************************************************************************)
EXTENDS Integers, Sequences, FiniteSets, TLC

\* Number of events and test notifications created in one run.
MaxEvents == 3

\* Number of processNotification calls that have not returned, at one time.
MaxInFlight == 2

\* Capacity of the store.  The source sets 1000 (discordRpcService.js:26);
\* the model scales it down so that eviction happens within MaxEvents.
MAX_NOTIFICATIONS == 2

\* settings.minLengthForSummary as shipped.
DEFAULT_MIN_LENGTH == 100

Ids == 1..MaxEvents

\* JavaScript null, for the string-valued fields of a record.
Null == "<null>"

\* settings.openaiApiEndpoint as shipped, and an endpoint of spaces only (the
\* empty string is falsy and never replaces an endpoint).
DefaultEndpoint == "https://api.openai.com/v1"
BlankEndpoint == " "

\* A message body, by what the code looks at: its length and whether
\* trim() leaves nothing.  The bodies delivered here are long enough for a
\* summary under the shipped threshold and too short under the raised one.
Bodies == { [len |-> 150, blank |-> FALSE, missing |-> FALSE] }

\* The test messages of createTestNotification are non-empty texts.
TestBodies == {b \in Bodies : b.len > 0}

\* Channel ids of raw events; KnownChannel is the one the guild fetch returns
\* (an event that arrives before the fetch has ended is not found in the table).
KnownChannel == "c1"
Channels == {KnownChannel}
Guild == [name |-> "g1", id |-> "s1", channels |-> {KnownChannel}]

\* The channel id createTestNotification makes up; no guild has it.
TestChannel == "test-channel"

\* The server id, the channel name and the direct-message name it makes up.
TestServer == "test-server"
TestChannelName == "team-announcements"
TestDmName == "John Smith"

\* Backend replies.  Extraction and categorization delay the record and fill
\* fields that the store and the summary path never read; the replies drawn
\* here are the empty ones (no event, no categorization).
ExtractReplies == {Null}
CategorizeReplies == { [category |-> Null, importance |-> Null] }
NeedReplies == {"YES", "NO", "FAIL"}
SummarizeReplies == {Null, "", "X"}

\* The newSettings objects of 'discord:update-settings': has is the set of
\* properties the object carries, the other fields their values.  One
\* property per update reaches every combination of settings.
SettingsFields == {"enableSummarization", "summaryDetectionMode", "minLengthForSummary"}
NewSettings ==
  { n \in [has : SUBSET SettingsFields,
           openaiApiEndpoint : {DefaultEndpoint},
           enableSummarization : BOOLEAN,
           summaryDetectionMode : {"length", "smart"},
           minLengthForSummary : {100, 200}] :
      /\ Cardinality(n.has) = 1
      /\ "enableSummarization" \notin n.has => n.enableSummarization = FALSE
      /\ "summaryDetectionMode" \notin n.has => n.summaryDetectionMode = "length"
      /\ "minLengthForSummary" \notin n.has => n.minLengthForSummary = 100 }

----------------------------------------------------------------------------
(* Inputs of SpecEnrich, the specification of what a record is made of:     *)
(* bodies of several lengths, channels inside and outside the fetched       *)
(* guild, malformed raw events and non-empty backend replies.  Its          *)
(* detection mode stays 'length' and its threshold the shipped one.         *)

\* Number of events and test notifications in one run of SpecEnrich.
EnrichEvents == 2

\* The empty text, a text under the threshold and one over it.
EnrichBodies ==
  { [len |-> 0, blank |-> TRUE, missing |-> FALSE],
    [len |-> 50, blank |-> FALSE, missing |-> FALSE],
    [len |-> 500, blank |-> FALSE, missing |-> FALSE] }

\* data.body of a raw event that has no body property: undefined.
NoBody == [len |-> 0, blank |-> TRUE, missing |-> TRUE]

\* data.message.id of a raw event whose message has no id: undefined.
NoId == 0

\* A channel id that no guild has.
UnknownChannel == "c9"
EnrichChannels == {KnownChannel, UnknownChannel}

\* Raw events without a body: with a message and its id, with a message
\* that has no id, and without the message object.  (A malformed event that
\* carries a body goes through the same requests as a well-formed one.)
MalformedEvents ==
  { [hasMessage |-> TRUE, hasId |-> TRUE],
    [hasMessage |-> TRUE, hasId |-> FALSE],
    [hasMessage |-> FALSE, hasId |-> FALSE] }

EnrichExtractReplies == {Null, "event"}
EnrichCategorizeReplies ==
  { [category |-> Null, importance |-> Null],
    [category |-> "QUESTION", importance |-> "HIGH"] }
EnrichSummarizeReplies == {Null, "X"}

\* Updates of the enable flag and of the endpoint.
EnrichSettings ==
  { n \in [has : {{"enableSummarization"}, {"openaiApiEndpoint"}},
           openaiApiEndpoint : {DefaultEndpoint, BlankEndpoint},
           enableSummarization : BOOLEAN,
           summaryDetectionMode : {"length"},
           minLengthForSummary : {DEFAULT_MIN_LENGTH}] :
      /\ "enableSummarization" \notin n.has => n.enableSummarization = FALSE
      /\ "openaiApiEndpoint" \notin n.has => n.openaiApiEndpoint = DefaultEndpoint }

VARIABLES
  notifications,  \* the store, head first
  guildLookup,    \* sequence of fetched guilds
  isConnected,
  readyPc,        \* position of the 'ready' handler: "idle" or "fetching"
  settings,
  service,        \* the OpenAIService instance's cached configuration
  tasks,          \* per id: the processNotification call and its locals
  nextId,         \* next fresh message id
  sent,           \* per id: the announcements sent to the renderer, in order
  insertLog,      \* ids in the order they were unshifted into the store
  summaryCb,      \* per id: what the summary callback saw when it ran
  pageReply,      \* what the last 'discord:get-notifications-page' returned
  call,           \* one call of an OpenAIService method, made on its own
  client,         \* the RPC client handle: Null, or the state of its transport
  renderer        \* the renderer's list state: displayed ids, page, pending load

vars == <<notifications, guildLookup, isConnected, readyPc, settings, service,
          tasks, nextId, sent, insertLog, summaryCb, pageReply, call, client,
          renderer>>

----------------------------------------------------------------------------
(* Helpers *)

Min(a, b) == IF a < b THEN a ELSE b

\* The processNotification calls suspended in a backend request made before
\* the record is returned.
Processing == {i \in Ids : tasks[i].pc \in {"extract", "categorize", "needcheck"}}

StoreIds(s) == {s[k].id : k \in 1..Len(s)}

\* Mutant of FindIndex: a miss is not told from the head of the array.
FindIndexMissIsHead(s, id) ==
  IF \E k \in 1..Len(s) : s[k].id = id
  THEN CHOOSE k \in 1..Len(s) : s[k].id = id /\ \A j \in 1..(k - 1) : s[j].id # id
  ELSE IF Len(s) > 0 THEN 1 ELSE 0

\* Array.prototype.findIndex(n => n.id === id): first match, 0 for -1.
FindIndex(s, id) ==
  IF \E k \in 1..Len(s) : s[k].id = id
  THEN CHOOSE k \in 1..Len(s) : s[k].id = id /\ \A j \in 1..(k - 1) : s[j].id # id
  ELSE 0

\* notifications.unshift(n)
Unshift(s, n) == <<n>> \o s

\* if (notifications.length > MAX_NOTIFICATIONS) slice(0, MAX_NOTIFICATIONS)
Truncate(s) ==
  IF Len(s) > MAX_NOTIFICATIONS THEN SubSeq(s, 1, MAX_NOTIFICATIONS) ELSE s

\* String.prototype.trim() on an endpoint.
Trim(str) == IF str = BlankEndpoint THEN "" ELSE str

\* OpenAIService.isEnabled(): this.enabled && this.apiEndpoint &&
\* this.apiEndpoint.trim() !== ''
IsEnabled(svc) == svc.enabled /\ svc.apiEndpoint # "" /\ Trim(svc.apiEndpoint) # ""

\* Mutant of LengthCheck: a text of exactly the threshold is too short.
LengthCheckAbove(svc, body) == body.len > svc.minLength

\* The length heuristic of shouldSummarize and of its fallbacks.
LengthCheck(svc, body) == body.len >= svc.minLength

\* channel.name of the channels that fetchChannels returns, and
\* data.message.nick of the events.
ChannelName == "general"
Nick == "nick"

\* getServerFromChannel(channelID) returns the string 'Unknown Server' when
\* no fetched guild has the channel: typeof serverInfo === 'string'.
IsUnknown(lookup, channel) ==
  ~ \E k \in 1..Len(lookup) : channel \in lookup[k].channels

\* getServerFromChannel(channelID) when a guild has the channel: the first.
GetServerFromChannel(lookup, channel) ==
  LET k == CHOOSE k \in 1..Len(lookup) :
             /\ channel \in lookup[k].channels
             /\ \A j \in 1..(k - 1) : channel \notin lookup[j].channels
  IN [server |-> lookup[k].name, serverid |-> lookup[k].id,
      channel |-> ChannelName]

\* isDM = !serverInfo || serverInfo === 'Unknown Server'; serverInfo is never
\* falsy, so a channel that is not found counts as a direct message.
IsDM(lookup, channel) == IsUnknown(lookup, channel)

----------------------------------------------------------------------------
(* Records *)

\* The renderer before its first load: useState([]) of displayedNotifications,
\* useState(1) of page, useState(false) of hasMore and isLoadingMore; loads
\* holds the loadNotifications calls awaiting their page, in the order they
\* were made, received counts the arrival announcements received, loaded
\* tells that the connection change has been received.
NoRenderer ==
  [displayed |-> << >>, page |-> 1, hasMore |-> FALSE, isLoadingMore |-> FALSE,
   loads |-> << >>, received |-> 0, loaded |-> FALSE]

\* A processNotification call that has not been made yet.
NoTask ==
  [pc |-> "none", path |-> "none",
   body |-> [len |-> 0, blank |-> TRUE, missing |-> FALSE], channelId |-> Null,
   isDM |-> FALSE, serverName |-> Null, summaryPending |-> FALSE,
   category |-> Null, importance |-> Null, eventDetails |-> Null,
   isUnknown |-> FALSE, serverId |-> "", channelName |-> "", nick |-> Null]

\* No page was requested yet.
NoPage == [notifications |-> << >>, hasMore |-> FALSE, total |-> -1]

\* No OpenAIService method was called on its own.
NoCall ==
  [fn |-> "none", pc |-> "none", reply |-> "none", result |-> "none",
   body |-> [len |-> 0, blank |-> TRUE, missing |-> FALSE], isDM |-> FALSE]

\* The summary callback has not run.
NoCallback == [ran |-> FALSE, result |-> Null, found |-> FALSE, wasPending |-> FALSE]

\* A messageLink: '' or https://discord.com/channels/<server>/<channel>/<message>
NoLink == [server |-> "", channel |-> "", message |-> 0]
MessageLink(server, channel, message) ==
  [server |-> server, channel |-> channel, message |-> message]

\* messageLink: isUnknown ? '' : `https://discord.com/channels/${isDM ? '@me'
\* : serverInfo.serverid}/${data.channel_id}/${data.message.id}`
BuildMessageLink(id, t) ==
  IF t.isUnknown THEN NoLink
  ELSE MessageLink(IF t.isDM THEN "@me" ELSE t.serverId, t.channelId, id)

\* channelName: isDM ? data.message.nick || 'DM' : (isUnknown ? '' :
\* serverInfo.channel)
BuildChannelName(t) ==
  IF t.isDM THEN t.nick ELSE IF t.isUnknown THEN "" ELSE t.channelName

\* Mutant of BuildNotification: the record is built with the flag's initial
\* value instead of the need-check's result.
BuildNotificationFlagUnset(id, t, needs) ==
  [id |-> id, body |-> t.body, summary |-> Null, summaryPending |-> FALSE,
   category |-> t.category, importance |-> t.importance,
   eventDetails |-> t.eventDetails, serverName |-> t.serverName,
   channelName |-> BuildChannelName(t), serverId |-> t.serverId,
   channelId |-> t.channelId, messageLink |-> BuildMessageLink(id, t),
   author |-> t.nick]

\* const notification = { id, body, summary: null, summaryPending, category,
\* importance, eventDetails, serverName, channelName, serverId, channelId,
\* messageLink, author, ... } of processNotification.  (title, icon and
\* timestamp are copies of the event's own fields.)
BuildNotification(id, t, needs) ==
  [id |-> id, body |-> t.body, summary |-> Null, summaryPending |-> needs,
   category |-> t.category, importance |-> t.importance,
   eventDetails |-> t.eventDetails, serverName |-> t.serverName,
   channelName |-> BuildChannelName(t), serverId |-> t.serverId,
   channelId |-> t.channelId, messageLink |-> BuildMessageLink(id, t),
   author |-> t.nick]

\* webContents.send('discord:notification', notification)
Arrived(n) ==
  [kind |-> "notification", id |-> n.id, summary |-> n.summary,
   cancelled |-> FALSE, category |-> n.category, importance |-> n.importance,
   summaryPending |-> n.summaryPending, body |-> n.body,
   serverName |-> n.serverName, channelName |-> n.channelName,
   serverId |-> n.serverId, channelId |-> n.channelId,
   messageLink |-> n.messageLink, author |-> n.author]

\* webContents.send('discord:summary-update', { id, summary }) and
\* ({ id, summary: null, cancelled: true })
SummaryUpdate(id, summary, cancelled) ==
  [kind |-> "summary-update", id |-> id, summary |-> summary,
   cancelled |-> cancelled, category |-> Null, importance |-> Null,
   summaryPending |-> FALSE]

\* webContents.send('discord:notification-update', { id, category,
\* importance, summaryPending })
NotificationUpdate(n) ==
  [kind |-> "notification-update", id |-> n.id, summary |-> Null,
   cancelled |-> FALSE, category |-> n.category, importance |-> n.importance,
   summaryPending |-> n.summaryPending]

----------------------------------------------------------------------------
(* The state the pipeline steps read and write, passed through the steps of  *)
(* one turn: t tasks, n notifications, s sent, log insertLog, cb summaryCb. *)

Now ==
  [t |-> tasks, n |-> notifications, s |-> sent, log |-> insertLog,
   cb |-> summaryCb]

Send(st, id, a) == [st EXCEPT !.s[id] = Append(@, a)]

SetPc(st, id, pc) == [st EXCEPT !.t[id].pc = pc]

\* if (summary) of the summary callback: null and '' are falsy.
Truthy(summary) == summary # Null /\ summary # ""

\* Mutant of ApplySummary: the summary is stored but the flag is not cleared.
ApplySummaryKeepsFlag(s, id, result) ==
  LET index == FindIndex(s, id) IN
  IF index = 0 THEN s
  ELSE IF Truthy(result)
       THEN [s EXCEPT ![index].summary = result]
       ELSE [s EXCEPT ![index].summaryPending = FALSE]

\* The store after the callback's  index = findIndex(...); if (index !== -1)
\* { notifications[index].summary = summary (truthy result only);
\*   notifications[index].summaryPending = false }
ApplySummary(s, id, result) ==
  LET index == FindIndex(s, id) IN
  IF index = 0 THEN s
  ELSE IF Truthy(result)
       THEN [s EXCEPT ![index].summary = result, ![index].summaryPending = FALSE]
       ELSE [s EXCEPT ![index].summaryPending = FALSE]

\* Mutant of SummaryAnnouncement: the failure branch sends the same payload
\* shape as the success branch, without the cancelled flag.
SummaryAnnouncementNoFlag(id, result) ==
  IF Truthy(result) THEN SummaryUpdate(id, result, FALSE)
  ELSE SummaryUpdate(id, Null, FALSE)

\* The announcement of the summary callback (sent whether or not the record
\* was found).
SummaryAnnouncement(id, result) ==
  IF Truthy(result) THEN SummaryUpdate(id, result, FALSE)
  ELSE SummaryUpdate(id, Null, TRUE)

\* Mutant of SummaryCallback: the .catch handler runs as well and announces
\* a second time.
SummaryCallbackTwice(st, id, result) ==
  LET index == FindIndex(st.n, id) IN
  Send(Send([st EXCEPT !.n = ApplySummary(st.n, id, result),
                       !.cb[id] = [ran |-> TRUE, result |-> result,
                                   found |-> index # 0,
                                   wasPending |-> index # 0 /\ st.n[index].summaryPending]],
            id, SummaryAnnouncement(id, result)),
       id, SummaryUpdate(id, Null, TRUE))

\* generateMessageSummary(...).then(summary => ...).catch(...): the callback
\* run with what generateMessageSummary resolved to.  generateMessageSummary
\* catches every rejection and the callback cannot throw, so .catch is dead.
SummaryCallback(st, id, result) ==
  LET index == FindIndex(st.n, id) IN
  Send([st EXCEPT !.n = ApplySummary(st.n, id, result),
                  !.cb[id] = [ran |-> TRUE, result |-> result, found |-> index # 0,
                              wasPending |-> index # 0 /\ st.n[index].summaryPending]],
       id, SummaryAnnouncement(id, result))

\* Mutant of HandlerInsert: the record is stored and not announced.
HandlerInsertUnannounced(st, n) ==
  [st EXCEPT !.n = Truncate(Unshift(st.n, n)),
             !.log = Append(@, n.id)]

\* client.on('NOTIFICATION_CREATE') after  await processNotification(data):
\* unshift, cap, announce.
HandlerInsert(st, n) ==
  Send([st EXCEPT !.n = Truncate(Unshift(st.n, n)),
                  !.log = Append(@, n.id)],
       n.id, Arrived(n))

\* createTestNotification's  processNotification(mock).then(enhanced => ...):
\* replace the basic record if it is still stored and announce its fields.
TestReplace(st, n) ==
  LET index == FindIndex(st.n, n.id) IN
  IF index = 0 THEN st
  ELSE Send([st EXCEPT !.n[index] = n], n.id, NotificationUpdate(n))

\* What the caller of processNotification does with the returned record.
Deliver(st, id, n) ==
  IF st.t[id].path = "event" THEN HandlerInsert(st, n) ELSE TestReplace(st, n)

----------------------------------------------------------------------------
(* processNotification, one operator per stretch between two awaits *)

\* OpenAIService.shouldSummarize up to its first backend request: "true" or
\* "false" when it answers by itself, "ask" when it calls
\* checkSummarizationNeed.
ShouldSummarize(svc, body) ==
  IF ~IsEnabled(svc) \/ body.len = 0 \/ body.blank THEN "false"
  ELSE IF svc.detectionMode = "smart" THEN "ask"
  ELSE IF LengthCheck(svc, body) THEN "true" ELSE "false"

\* checkSummarizationNeed on the backend's reply: the answer YES, any other
\* answer, or a failure (transport error, non-OK status, no usable choice),
\* which falls back to the length heuristic.
NeedFromReply(svc, body, reply) ==
  IF reply = "FAIL" THEN LengthCheck(svc, body) ELSE reply = "YES"

\* From  const notification = {...}  to the end of the turn: the record is
\* built, the summary is started when needed, the record is returned and the
\* caller's continuation runs.  A generateMessageSummary that returns before
\* its first await queues the summary callback ahead of that continuation.
Finish(st, id, needs) ==
  LET st1 == [st EXCEPT !.t[id].summaryPending = needs]
      t == st1.t[id]
      n == BuildNotification(id, t, needs)
  IN
  IF ~needs THEN Deliver(SetPc(st1, id, "done"), id, n)
  ELSE IF ~settings.enableSummarization \/ ~IsEnabled(service)
    THEN Deliver(SummaryCallback(SetPc(st1, id, "done"), id, Null), id, n)
  ELSE IF ~service.enabled \/ t.body.len = 0 \/ t.body.blank
    THEN SummaryCallback(Deliver(SetPc(st1, id, "done"), id, n), id, Null)
  ELSE IF ShouldSummarize(service, t.body) = "ask"
    THEN Deliver(SetPc(st1, id, "sumcheck"), id, n)
  ELSE IF ShouldSummarize(service, t.body) = "true"
    THEN Deliver(SetPc(st1, id, "summarize"), id, n)
  ELSE SummaryCallback(Deliver(SetPc(st1, id, "done"), id, n), id, Null)

\* const needsSummary = await openAIService.shouldSummarize(data.body)
NeedCheck(st, id) ==
  LET r == ShouldSummarize(service, st.t[id].body) IN
  IF r = "ask" THEN SetPc(st, id, "needcheck") ELSE Finish(st, id, r = "true")

\* After  eventDetails = await openAIService.extractEventDetails(data.body):
\* an event sets the category; a non-DM record without an event is
\* categorized (categorizeMessage returns null without a request when the
\* service is off or the body is blank).
AfterExtract(st, id, ev) ==
  LET t == st.t[id]
      st1 == IF ev # Null
             THEN [st EXCEPT !.t[id].eventDetails = ev,
                             !.t[id].category = "EVENT",
                             !.t[id].importance = "MEDIUM"]
             ELSE st
  IN
  IF ~t.isDM /\ ev = Null /\ service.enabled /\ t.body.len > 0 /\ ~t.body.blank
  THEN SetPc(st1, id, "categorize")
  ELSE NeedCheck(st1, id)

\* Mutant of AfterCategorize: the category is taken, the importance is not.
AfterCategorizeCategoryOnly(st, id, c) ==
  NeedCheck(IF c.category # Null
            THEN [st EXCEPT !.t[id].category = c.category]
            ELSE st, id)

\* After  categorization = await openAIService.categorizeMessage(...)
AfterCategorize(st, id, c) ==
  NeedCheck(IF c.category # Null
            THEN [st EXCEPT !.t[id].category = c.category,
                            !.t[id].importance = c.importance]
            ELSE st, id)

\* Mutant of ProcessNotification: the enable flag and the endpoint are not
\* looked at.
ProcessNotificationAlwaysEnrich(st, id) ==
  IF st.t[id].body.len > 0 THEN SetPc(st, id, "extract") ELSE Finish(st, id, FALSE)

\* processNotification(data) up to its first await.
ProcessNotification(st, id) ==
  IF settings.enableSummarization /\ st.t[id].body.len > 0 /\ IsEnabled(service)
  THEN SetPc(st, id, "extract")
  ELSE Finish(st, id, FALSE)

----------------------------------------------------------------------------
(* Initial state: module load, initDiscordRpc with no settings file *)

Init ==
  /\ renderer = NoRenderer
  /\ notifications = << >>
  /\ guildLookup = << >>
  /\ isConnected = FALSE
  /\ readyPc = "idle"
  /\ settings = [openaiApiKey |-> "",
                 openaiApiEndpoint |-> DefaultEndpoint,
                 enableSummarization |-> FALSE,
                 summaryDetectionMode |-> "length",
                 minLengthForSummary |-> DEFAULT_MIN_LENGTH]
  /\ service = [enabled |-> FALSE,
                apiKey |-> "",
                apiEndpoint |-> DefaultEndpoint,
                detectionMode |-> "length",
                minLength |-> DEFAULT_MIN_LENGTH]
  /\ tasks = [i \in Ids |-> NoTask]
  /\ nextId = 1
  /\ sent = [i \in Ids |-> << >>]
  /\ insertLog = << >>
  /\ summaryCb = [i \in Ids |-> NoCallback]
  /\ pageReply = NoPage
  /\ call = NoCall
  /\ client = Null

Commit(st) ==
  /\ tasks' = st.t
  /\ notifications' = st.n
  /\ sent' = st.s
  /\ insertLog' = st.log
  /\ summaryCb' = st.cb

----------------------------------------------------------------------------
(* Actions *)

\* ipcMain.handle('discord:update-settings'): settings = {...settings,
\* ...newSettings}; getOpenAIService().updateSettings(newSettings).
MergeSettings(old, new) ==
  [openaiApiKey |->
     IF "openaiApiKey" \in new.has THEN new.openaiApiKey ELSE old.openaiApiKey,
   openaiApiEndpoint |->
     IF "openaiApiEndpoint" \in new.has THEN new.openaiApiEndpoint
     ELSE old.openaiApiEndpoint,
   enableSummarization |->
     IF "enableSummarization" \in new.has THEN new.enableSummarization
     ELSE old.enableSummarization,
   summaryDetectionMode |->
     IF "summaryDetectionMode" \in new.has THEN new.summaryDetectionMode
     ELSE old.summaryDetectionMode,
   minLengthForSummary |->
     IF "minLengthForSummary" \in new.has THEN new.minLengthForSummary
     ELSE old.minLengthForSummary]

\* OpenAIService.updateSettings: enabled is taken when defined, the other
\* fields when truthy (x || this.x).
ServiceUpdateSettings(svc, new) ==
  [svc EXCEPT
     !.apiKey = IF "openaiApiKey" \in new.has /\ new.openaiApiKey # ""
                THEN new.openaiApiKey ELSE @,
     !.apiEndpoint = IF "openaiApiEndpoint" \in new.has
                        /\ new.openaiApiEndpoint # ""
                     THEN new.openaiApiEndpoint ELSE @,
     !.enabled = IF "enableSummarization" \in new.has
                 THEN new.enableSummarization ELSE @,
     !.detectionMode = IF "summaryDetectionMode" \in new.has
                       THEN new.summaryDetectionMode ELSE @,
     !.minLength = IF "minLengthForSummary" \in new.has
                      /\ new.minLengthForSummary # 0
                   THEN new.minLengthForSummary ELSE @]

UpdateSettings(new) ==
  /\ settings' = MergeSettings(settings, new)
  /\ service' = ServiceUpdateSettings(service, new)
  /\ UNCHANGED <<notifications, guildLookup, isConnected, readyPc, tasks,
                 nextId, sent, insertLog, summaryCb, pageReply, call, client,
                 renderer>>

\* ipcMain.handle('discord:connect') with the client id and secret set, up to
\* await client.login(...): a request made while a client exists returns at
\* once and changes nothing; otherwise the client is made and logs in.
Connect ==
  /\ client = Null
  /\ client' = "login"
  /\ UNCHANGED <<notifications, guildLookup, isConnected, readyPc, settings,
                 service, tasks, nextId, sent, insertLog, summaryCb, pageReply,
                 call, renderer>>

\* client.on('ready') up to its awaits: the connection flag is set, the
\* subscription and the guild fetch are requested.
OnReady ==
  /\ client = "login"
  /\ ~isConnected
  /\ readyPc = "idle"
  /\ isConnected' = TRUE
  /\ readyPc' = "fetching"
  /\ client' = "ready"
  /\ UNCHANGED <<notifications, guildLookup, settings, service, tasks, nextId,
                 sent, insertLog, summaryCb, pageReply, call, renderer>>

\* client.on('ready') after fetchGuilds and fetchChannels: the guild is
\* pushed, or nothing is when a fetch failed.
ReadyFetched(ok) ==
  /\ readyPc = "fetching"
  /\ readyPc' = "idle"
  /\ guildLookup' = IF ok THEN Append(guildLookup, Guild) ELSE guildLookup
  /\ UNCHANGED <<notifications, isConnected, settings, service, tasks, nextId,
                 sent, insertLog, summaryCb, pageReply, call, client,
                 renderer>>

\* Mutant of NotificationCreate: the handler of an event starts only when no
\* call of an earlier record is waiting for the backend.
NotificationCreateSerial(body, channel) ==
  /\ isConnected
  /\ nextId <= MaxEvents
  /\ \A i \in Ids : tasks[i].pc \in {"idle", "done", "threw"}
  /\ LET isDM == IsDM(guildLookup, channel)
         t == [NoTask EXCEPT
                 !.path = "event", !.body = body, !.isDM = isDM,
                 !.channelId = channel,
                 !.serverName =
                    IF isDM THEN "Direct Message"
                    ELSE GetServerFromChannel(guildLookup, channel).server,
                 !.isUnknown = IsUnknown(guildLookup, channel),
                 !.serverId =
                    IF IsUnknown(guildLookup, channel) THEN ""
                    ELSE GetServerFromChannel(guildLookup, channel).serverid,
                 !.channelName =
                    IF IsUnknown(guildLookup, channel) THEN ""
                    ELSE GetServerFromChannel(guildLookup, channel).channel,
                 !.nick = Nick]
     IN Commit(ProcessNotification([Now EXCEPT !.t[nextId] = t], nextId))
  /\ nextId' = nextId + 1
  /\ UNCHANGED <<guildLookup, isConnected, readyPc, settings, service,
                 pageReply, call, client, renderer>>

\* client.on('NOTIFICATION_CREATE', async (data) => ...) with a fresh message
\* id: processNotification starts; when it needs no backend request the
\* record is inserted and announced in the same turn.
NotificationCreate(body, channel) ==
  /\ isConnected
  /\ nextId <= MaxEvents
  /\ Cardinality(Processing) < MaxInFlight
  /\ LET isDM == IsDM(guildLookup, channel)
         t == [NoTask EXCEPT
                 !.path = "event", !.body = body, !.isDM = isDM,
                 !.channelId = channel,
                 !.serverName =
                    IF isDM THEN "Direct Message"
                    ELSE GetServerFromChannel(guildLookup, channel).server,
                 !.isUnknown = IsUnknown(guildLookup, channel),
                 !.serverId =
                    IF IsUnknown(guildLookup, channel) THEN ""
                    ELSE GetServerFromChannel(guildLookup, channel).serverid,
                 !.channelName =
                    IF IsUnknown(guildLookup, channel) THEN ""
                    ELSE GetServerFromChannel(guildLookup, channel).channel,
                 !.nick = Nick]
     IN Commit(ProcessNotification([Now EXCEPT !.t[nextId] = t], nextId))
  /\ nextId' = nextId + 1
  /\ UNCHANGED <<guildLookup, isConnected, readyPc, settings, service,
                 pageReply, call, client, renderer>>

\* createTestNotification(mainWindow): the basic record is unshifted and
\* announced at once, then processNotification(mockNotification) runs and its
\* result replaces the basic record.  The mock's channel id is in no guild.
CreateTestNotification(body, isDM, hasEvent) ==
  /\ nextId <= MaxEvents
  /\ Cardinality(Processing) < MaxInFlight
  /\ LET id == nextId
         basic == [id |-> id, body |-> body, summary |-> Null,
                   summaryPending |-> FALSE, category |-> Null,
                   importance |-> Null,
                   eventDetails |-> IF hasEvent THEN "event" ELSE Null,
                   serverName |-> IF isDM THEN "Direct Message" ELSE "Test Server",
                   channelName |-> IF isDM THEN TestDmName ELSE TestChannelName,
                   serverId |-> IF isDM THEN "" ELSE TestServer,
                   channelId |-> TestChannel,
                   messageLink |-> MessageLink(IF isDM THEN "@me" ELSE TestServer,
                                               TestChannel, id),
                   author |-> IF isDM THEN TestDmName ELSE "Test User"]
         t == [NoTask EXCEPT
                 !.path = "test", !.body = body, !.channelId = TestChannel,
                 !.isDM = IsDM(guildLookup, TestChannel),
                 !.serverName = "Direct Message",
                 !.isUnknown = IsUnknown(guildLookup, TestChannel),
                 !.nick = IF isDM THEN TestDmName ELSE "Test User"]
         st0 == Send([Now EXCEPT !.t[id] = t,
                                 !.n = Unshift(notifications, basic),
                                 !.log = Append(insertLog, id)],
                     id, Arrived(basic))
     IN Commit(ProcessNotification(st0, id))
  /\ nextId' = nextId + 1
  /\ UNCHANGED <<guildLookup, isConnected, readyPc, settings, service,
                 pageReply, call, client, renderer>>

\* The extract-event request of record id returns: a validated event or null
\* (NO_EVENT, invalid details, any failure).
ExtractReturns(id, ev) ==
  /\ tasks[id].pc = "extract"
  /\ Commit(AfterExtract(Now, id, ev))
  /\ UNCHANGED <<guildLookup, isConnected, readyPc, settings, service, nextId,
                 pageReply, call, client, renderer>>

\* The categorize request of record id returns.
CategorizeReturns(id, c) ==
  /\ tasks[id].pc = "categorize"
  /\ Commit(AfterCategorize(Now, id, c))
  /\ UNCHANGED <<guildLookup, isConnected, readyPc, settings, service, nextId,
                 pageReply, call, client, renderer>>

\* The need-check request of processNotification's shouldSummarize returns.
NeedCheckReturns(id, reply) ==
  /\ tasks[id].pc = "needcheck"
  /\ Commit(Finish(Now, id, NeedFromReply(service, tasks[id].body, reply)))
  /\ UNCHANGED <<guildLookup, isConnected, readyPc, settings, service, nextId,
                 pageReply, call, client, renderer>>

\* The need-check request that summarizeMessage makes itself returns: the
\* summarize request follows, or summarizeMessage returns null.
SummaryCheckReturns(id, reply) ==
  /\ tasks[id].pc = "sumcheck"
  /\ Commit(IF NeedFromReply(service, tasks[id].body, reply)
            THEN SetPc(Now, id, "summarize")
            ELSE SummaryCallback(SetPc(Now, id, "done"), id, Null))
  /\ UNCHANGED <<guildLookup, isConnected, readyPc, settings, service, nextId,
                 pageReply, call, client, renderer>>

\* The summarize request returns: trimmed text (possibly empty), or null on
\* a failure; the summary callback runs.
SummarizeReturns(id, reply) ==
  /\ tasks[id].pc = "summarize"
  /\ Commit(SummaryCallback(SetPc(Now, id, "done"), id, reply))
  /\ UNCHANGED <<guildLookup, isConnected, readyPc, settings, service, nextId,
                 pageReply, call, client, renderer>>

Next ==
  \/ \E new \in NewSettings : UpdateSettings(new)
  \/ Connect
  \/ OnReady
  \/ \E ok \in BOOLEAN : ReadyFetched(ok)
  \/ \E body \in Bodies, channel \in Channels : NotificationCreate(body, channel)
  \/ \E body \in TestBodies, isDM \in {FALSE}, hasEvent \in {FALSE} :
       CreateTestNotification(body, isDM, hasEvent)
  \/ \E id \in Ids, ev \in ExtractReplies : ExtractReturns(id, ev)
  \/ \E id \in Ids, c \in CategorizeReplies : CategorizeReturns(id, c)
  \/ \E id \in Ids, reply \in NeedReplies : NeedCheckReturns(id, reply)
  \/ \E id \in Ids, reply \in NeedReplies : SummaryCheckReturns(id, reply)
  \/ \E id \in Ids, reply \in SummarizeReplies : SummarizeReturns(id, reply)

Spec == Init /\ [][Next]_vars

----------------------------------------------------------------------------
(* SpecEnrich *)

\* client.on('NOTIFICATION_CREATE') on a raw event without a body.  data.body
\* is falsy, so processNotification makes no request; it reads
\* data.message.nick, which throws when the message object is missing (the
\* handler's promise rejects and nothing is inserted); otherwise the record
\* is built with id: data.message.id and body: data.body as they are, and the
\* handler inserts and announces it.
NotificationCreateMalformed(raw, channel) ==
  /\ isConnected
  /\ nextId <= MaxEvents
  /\ LET isDM == IsDM(guildLookup, channel)
         t == [NoTask EXCEPT
                 !.path = "event", !.body = NoBody, !.isDM = isDM,
                 !.channelId = channel,
                 !.serverName =
                    IF isDM THEN "Direct Message"
                    ELSE GetServerFromChannel(guildLookup, channel).server,
                 !.isUnknown = IsUnknown(guildLookup, channel),
                 !.serverId =
                    IF IsUnknown(guildLookup, channel) THEN ""
                    ELSE GetServerFromChannel(guildLookup, channel).serverid,
                 !.channelName =
                    IF IsUnknown(guildLookup, channel) THEN ""
                    ELSE GetServerFromChannel(guildLookup, channel).channel,
                 !.nick = Nick]
         n == [BuildNotification(nextId, t, FALSE) EXCEPT
                 !.id = IF raw.hasId THEN nextId ELSE NoId,
                 !.messageLink =
                    IF raw.hasId \/ @ = NoLink THEN @ ELSE [@ EXCEPT !.message = NoId]]
     IN IF ~raw.hasMessage
        THEN Commit([Now EXCEPT !.t[nextId] = [t EXCEPT !.pc = "threw"]])
        ELSE Commit(Send([Now EXCEPT !.t[nextId] = [t EXCEPT !.pc = "done"],
                                     !.n = Truncate(Unshift(notifications, n)),
                                     !.log = Append(insertLog, n.id)],
                         nextId, Arrived(n)))
  /\ nextId' = nextId + 1
  /\ UNCHANGED <<guildLookup, isConnected, readyPc, settings, service,
                 pageReply, call, client, renderer>>

NextEnrich ==
  \/ \E new \in EnrichSettings : UpdateSettings(new)
  \/ Connect
  \/ OnReady
  \/ \E ok \in BOOLEAN : ReadyFetched(ok)
  \/ /\ nextId <= EnrichEvents
     /\ \E body \in EnrichBodies, channel \in EnrichChannels :
          NotificationCreate(body, channel)
  \/ /\ nextId <= EnrichEvents
     /\ \E raw \in MalformedEvents, channel \in EnrichChannels :
          NotificationCreateMalformed(raw, channel)
  \/ /\ nextId <= EnrichEvents
     /\ \E body \in {b \in EnrichBodies : b.len > 0}, isDM \in BOOLEAN,
           hasEvent \in BOOLEAN :
          CreateTestNotification(body, isDM, hasEvent)
  \/ \E id \in Ids, ev \in EnrichExtractReplies : ExtractReturns(id, ev)
  \/ \E id \in Ids, c \in EnrichCategorizeReplies : CategorizeReturns(id, c)
  \/ \E id \in Ids, reply \in EnrichSummarizeReplies : SummarizeReturns(id, reply)

SpecEnrich == Init /\ [][NextEnrich]_vars

----------------------------------------------------------------------------
(* SpecPage: page requests against the stores that ingestion builds with    *)
(* the shipped settings (enrichment off, every record inserted at once).    *)

\* Largest page number and page size requested.
MaxPage == 3

Max(a, b) == IF a > b THEN a ELSE b

\* Array.prototype.slice(start, end): a negative index counts from the end,
\* both are clamped to the array.
Slice(s, start, end) ==
  LET from == IF start < 0 THEN Max(Len(s) + start, 0) ELSE Min(start, Len(s))
      to == IF end < 0 THEN Max(Len(s) + end, 0) ELSE Min(end, Len(s))
  IN [k \in 1..Max(to - from, 0) |-> s[from + k]]

\* Mutant of PageStart: the page starts where the page before it ended.
PageStartAfterPrevious(page, perPage) == (page - 1) * perPage

\* const startIndex = 0
PageStart(page, perPage) == 0

\* ipcMain.handle('discord:get-notifications-page', (_, { page, perPage }))
GetNotificationsPage(page, perPage) ==
  /\ LET startIndex == PageStart(page, perPage)
         endIndex == page * perPage
     IN pageReply' = [notifications |-> Slice(notifications, startIndex, endIndex),
                      hasMore |-> endIndex < Len(notifications),
                      total |-> Len(notifications)]
  /\ UNCHANGED <<notifications, guildLookup, isConnected, readyPc, settings,
                 service, tasks, nextId, sent, insertLog, summaryCb, call, client,
                 renderer>>

NextPage ==
  \/ Connect
  \/ OnReady
  \/ \E ok \in BOOLEAN : ReadyFetched(ok)
  \/ \E body \in Bodies, channel \in Channels : NotificationCreate(body, channel)
  \/ \E body \in TestBodies : CreateTestNotification(body, FALSE, FALSE)
  \/ \E page \in 1..MaxPage, perPage \in 1..MaxPage :
       GetNotificationsPage(page, perPage)

SpecPage == Init /\ [][NextPage]_vars

----------------------------------------------------------------------------
(* SpecAdapter: one call of one OpenAIService method, for every              *)
(* configuration of the service, every kind of message text and every       *)
(* behaviour of the backend.                                                *)

AdapterFns ==
  {"shouldSummarize", "summarizeMessage", "categorizeMessage", "extractEventDetails"}

\* Message texts: none, the empty one, texts around both thresholds and a
\* text of spaces only.
AdapterBodies ==
  { NoBody,
    [len |-> 0, blank |-> TRUE, missing |-> FALSE],
    [len |-> 150, blank |-> TRUE, missing |-> FALSE],
    [len |-> 99, blank |-> FALSE, missing |-> FALSE],
    [len |-> 100, blank |-> FALSE, missing |-> FALSE],
    [len |-> 199, blank |-> FALSE, missing |-> FALSE],
    [len |-> 200, blank |-> FALSE, missing |-> FALSE] }

AdapterServices ==
  [enabled : BOOLEAN, apiKey : {""}, apiEndpoint : {DefaultEndpoint, BlankEndpoint},
   detectionMode : {"length", "smart"}, minLength : {100, 200}]

\* Replies in which choices[0].message.content is a string, by that string.
ContentReplies ==
  { "YES", " yes ", "NO", "X", " ", "NO_EVENT", "null",
    "{category,importance}", "{category,importance:unlisted}", "{category}",
    "{event:valid}", "{event:invalid}" }

\* What the backend does with a request: fetch rejects; the status is not
\* OK (with a JSON body or without); the body of an OK response is not JSON;
\* it is the JSON null; it has no choices[0].message; the message's content
\* is null; or the content is a string.
FailedReplies ==
  { "transport-error", "not-ok", "not-ok-unparsable", "unparsable", "null-data",
    "no-choices", "null-content" }
BackendReplies == FailedReplies \cup ContentReplies

\* A statement of the try block threw.
Throws == "<throws>"

\* A boolean result of a method.
Bool(b) == IF b THEN "true" ELSE "false"

\* content.trim() and content.trim().toUpperCase() of the content replies.
TrimContent(c) == IF c = " " THEN "" ELSE IF c = " yes " THEN "yes" ELSE c
ToUpperCase(c) == IF c = "yes" THEN "YES" ELSE c

\* The try block of checkSummarizationNeed.
CheckSummarizationNeedTry(svc, body, r) ==
  IF r = "transport-error" THEN Throws
  ELSE IF r \in {"not-ok", "not-ok-unparsable"} THEN Bool(LengthCheck(svc, body))
  ELSE IF r \in {"unparsable", "null-data"} THEN Throws
  ELSE IF r = "no-choices" THEN Bool(LengthCheck(svc, body))
  ELSE IF r = "null-content" THEN Throws
  ELSE Bool(ToUpperCase(TrimContent(r)) = "YES")

\* Mutant of CheckSummarizationNeed: the catch block answers no.
CheckSummarizationNeedCatchNo(svc, body, r) ==
  LET v == CheckSummarizationNeedTry(svc, body, r) IN
  IF v = Throws THEN "false" ELSE v

\* checkSummarizationNeed: the catch block falls back to the length check.
CheckSummarizationNeed(svc, body, r) ==
  LET v == CheckSummarizationNeedTry(svc, body, r) IN
  IF v = Throws THEN Bool(LengthCheck(svc, body)) ELSE v

\* shouldSummarize in smart mode: try { return await
\* this.checkSummarizationNeed(...) } catch { return length check }
ShouldSummarizeSmart(svc, body, r) ==
  LET v == CheckSummarizationNeed(svc, body, r) IN
  IF v = Throws THEN Bool(LengthCheck(svc, body)) ELSE v

\* The try block of summarizeMessage from its fetch on.  A response that is
\* not OK is read with response.json() before null is returned.
SummarizeMessageTry(r) ==
  IF r = "transport-error" THEN Throws
  ELSE IF r = "not-ok" THEN Null
  ELSE IF r = "not-ok-unparsable" THEN Throws
  ELSE IF r \in {"unparsable", "null-data"} THEN Throws
  ELSE IF r = "no-choices" THEN Null
  ELSE IF r = "null-content" THEN Throws
  ELSE TrimContent(r)

\* summarizeMessage from its fetch on: the catch block returns null.
SummarizeMessage(r) ==
  LET v == SummarizeMessageTry(r) IN IF v = Throws THEN Null ELSE v

\* The inner try block of categorizeMessage: JSON.parse of the trimmed
\* content, then the two fields are looked at.
ParseCategorization(r) ==
  IF r = "null-content" THEN Throws
  ELSE IF r = "{category,importance}" THEN "categorization"
  ELSE IF r = "{category,importance:unlisted}" THEN "categorization-unlisted"
  ELSE IF r \in {"{category}", "{event:valid}", "{event:invalid}"} THEN Null
  ELSE Throws

\* The outer try block of categorizeMessage from its fetch on; the inner
\* catch block logs and the function returns null.
CategorizeMessageTry(r) ==
  IF r = "transport-error" THEN Throws
  ELSE IF r \in {"not-ok", "not-ok-unparsable"} THEN Null
  ELSE IF r \in {"unparsable", "null-data"} THEN Throws
  ELSE IF r = "no-choices" THEN Null
  ELSE LET v == ParseCategorization(r) IN IF v = Throws THEN Null ELSE v

\* Mutant of CategorizeMessage: the outer try has no catch.
CategorizeMessageNoCatch(r) == CategorizeMessageTry(r)

\* categorizeMessage from its fetch on: the catch block returns null.
CategorizeMessage(r) ==
  LET v == CategorizeMessageTry(r) IN IF v = Throws THEN Null ELSE v

\* The inner try block of extractEventDetails: JSON.parse of the trimmed
\* content and validateEventDetails.
ParseEventDetails(r) ==
  IF r = "{event:valid}" THEN "event"
  ELSE IF r \in {"{event:invalid}", "null", "{category,importance}",
                 "{category,importance:unlisted}", "{category}"} THEN Null
  ELSE Throws

\* The outer try block of extractEventDetails from its fetch on.
ExtractEventDetailsTry(r) ==
  IF r = "transport-error" THEN Throws
  ELSE IF r \in {"not-ok", "not-ok-unparsable"} THEN Null
  ELSE IF r \in {"unparsable", "null-data"} THEN Throws
  ELSE IF r = "no-choices" THEN Null
  ELSE IF r = "null-content" THEN Throws
  ELSE IF TrimContent(r) = "NO_EVENT" THEN Null
  ELSE LET v == ParseEventDetails(r) IN IF v = Throws THEN Null ELSE v

\* extractEventDetails from its fetch on: the catch block returns null.
ExtractEventDetails(r) ==
  LET v == ExtractEventDetailsTry(r) IN IF v = Throws THEN Null ELSE v

Returned(c, v) ==
  [c EXCEPT !.pc = IF v = Throws THEN "threw" ELSE "returned", !.result = v]

InitAdapter ==
  /\ renderer = NoRenderer
  /\ notifications = << >>
  /\ guildLookup = << >>
  /\ isConnected = FALSE
  /\ readyPc = "idle"
  /\ service \in AdapterServices
  /\ settings = [openaiApiKey |-> service.apiKey,
                 openaiApiEndpoint |-> service.apiEndpoint,
                 enableSummarization |-> service.enabled,
                 summaryDetectionMode |-> service.detectionMode,
                 minLengthForSummary |-> service.minLength]
  /\ tasks = [i \in Ids |-> NoTask]
  /\ nextId = 1
  /\ sent = [i \in Ids |-> << >>]
  /\ insertLog = << >>
  /\ summaryCb = [i \in Ids |-> NoCallback]
  /\ pageReply = NoPage
  /\ client = Null
  /\ call \in {[NoCall EXCEPT !.fn = f, !.pc = "called", !.body = b, !.isDM = dm] :
                 f \in AdapterFns, b \in AdapterBodies, dm \in BOOLEAN}

AdapterUnchanged ==
  UNCHANGED <<notifications, guildLookup, isConnected, readyPc, settings,
              service, tasks, nextId, sent, insertLog, summaryCb, pageReply,
              client, renderer>>

\* The method runs from its call to its first request, or to its return when
\* its guards answer by themselves.
AdapterCall ==
  /\ call.pc = "called"
  /\ LET b == call.body
         need == ShouldSummarize(service, b)
     IN call' =
       IF call.fn = "shouldSummarize"
       THEN IF need = "ask" THEN [call EXCEPT !.pc = "needfetch"]
            ELSE Returned(call, need)
       ELSE IF call.fn = "summarizeMessage"
       THEN IF ~service.enabled \/ b.len = 0 \/ b.blank THEN Returned(call, Null)
            ELSE IF need = "ask" THEN [call EXCEPT !.pc = "needfetch"]
            ELSE IF need = "true" THEN [call EXCEPT !.pc = "fetch"]
            ELSE Returned(call, Null)
       ELSE IF call.fn = "categorizeMessage"
       THEN IF call.isDM THEN Returned(call, Null)
            ELSE IF ~service.enabled \/ b.len = 0 \/ b.blank THEN Returned(call, Null)
            ELSE [call EXCEPT !.pc = "fetch"]
       ELSE IF ~IsEnabled(service) \/ b.len = 0 THEN Returned(call, Null)
            ELSE [call EXCEPT !.pc = "fetch"]
  /\ AdapterUnchanged

\* fetch on an endpoint of spaces only rejects: the URL is not valid.
CanReply(r) == Trim(service.apiEndpoint) = "" => r = "transport-error"

\* The need-check request of shouldSummarize is answered.
AdapterNeedReply(r) ==
  /\ call.pc = "needfetch"
  /\ CanReply(r)
  /\ LET v == ShouldSummarizeSmart(service, call.body, r)
         c == [call EXCEPT !.reply = r]
     IN call' =
       IF call.fn = "shouldSummarize" \/ v = Throws THEN Returned(c, v)
       ELSE IF v = "true" THEN [c EXCEPT !.pc = "fetch"]
       ELSE Returned(c, Null)
  /\ AdapterUnchanged

\* The method's own request is answered.
AdapterReply(r) ==
  /\ call.pc = "fetch"
  /\ CanReply(r)
  /\ call' = Returned([call EXCEPT !.reply = r],
                      IF call.fn = "summarizeMessage" THEN SummarizeMessage(r)
                      ELSE IF call.fn = "categorizeMessage" THEN CategorizeMessage(r)
                      ELSE ExtractEventDetails(r))
  /\ AdapterUnchanged

NextAdapter ==
  \/ AdapterCall
  \/ \E r \in BackendReplies : AdapterNeedReply(r)
  \/ \E r \in BackendReplies : AdapterReply(r)

SpecAdapter == InitAdapter /\ [][NextAdapter]_vars

----------------------------------------------------------------------------
(* SpecSilent: the pipeline with a backend that may leave a request         *)
(* unanswered.  Every fetch of openAiService.js is made without a signal or  *)
(* a timer, so a request ends only when the backend answers: the answers    *)
(* are steps of the backend and carry no fairness, every handler of the     *)
(* program does.  The detection mode stays 'length'.                        *)

\* Updates of the enable flag.
EnableSettings == {n \in EnrichSettings : "enableSummarization" \in n.has}

\* The steps the program takes without an answer of the backend.
SilentHandlers ==
  \/ \E new \in EnableSettings : UpdateSettings(new)
  \/ Connect
  \/ OnReady
  \/ \E ok \in BOOLEAN : ReadyFetched(ok)
  \/ \E body \in Bodies, channel \in Channels : NotificationCreate(body, channel)
  \/ \E body \in TestBodies : CreateTestNotification(body, FALSE, FALSE)

\* The answers of the backend.
BackendAnswers ==
  \/ \E id \in Ids, ev \in ExtractReplies : ExtractReturns(id, ev)
  \/ \E id \in Ids, c \in CategorizeReplies : CategorizeReturns(id, c)
  \/ \E id \in Ids, reply \in SummarizeReplies : SummarizeReturns(id, reply)

NextSilent == SilentHandlers \/ BackendAnswers

SpecSilent == Init /\ [][NextSilent]_vars /\ WF_vars(SilentHandlers)

----------------------------------------------------------------------------
(* SpecSettings: 'discord:update-settings' with every kind of value the      *)
(* settings form can send, the empty credential, the empty endpoint and a   *)
(* threshold of 0 among them, and one event that goes through the adapter   *)
(* with the configuration the updates left.                                 *)

\* Number of events in one run of SpecSettings.
SettingsEvents == 1

\* A credential, as the settings form sends it after trim().
ApiKey == "sk-1"

SettingsValues ==
  { n \in [has : {{"openaiApiKey"}, {"openaiApiEndpoint"}, {"enableSummarization"},
                  {"summaryDetectionMode"}, {"minLengthForSummary"}},
           openaiApiKey : {"", ApiKey},
           openaiApiEndpoint : {"", DefaultEndpoint, BlankEndpoint},
           enableSummarization : BOOLEAN,
           summaryDetectionMode : {"length", "smart"},
           minLengthForSummary : {0, 100, 200}] :
      /\ "openaiApiKey" \notin n.has => n.openaiApiKey = ""
      /\ "openaiApiEndpoint" \notin n.has => n.openaiApiEndpoint = DefaultEndpoint
      /\ "enableSummarization" \notin n.has => n.enableSummarization = FALSE
      /\ "summaryDetectionMode" \notin n.has => n.summaryDetectionMode = "length"
      /\ "minLengthForSummary" \notin n.has => n.minLengthForSummary = 100 }

NextSettings ==
  \/ \E new \in SettingsValues : UpdateSettings(new)
  \/ Connect
  \/ OnReady
  \/ \E ok \in BOOLEAN : ReadyFetched(ok)
  \/ /\ nextId <= SettingsEvents
     /\ \E body \in Bodies, channel \in Channels : NotificationCreate(body, channel)
  \/ \E id \in Ids, ev \in ExtractReplies : ExtractReturns(id, ev)
  \/ \E id \in Ids, c \in CategorizeReplies : CategorizeReturns(id, c)
  \/ \E id \in Ids, reply \in NeedReplies : NeedCheckReturns(id, reply)
  \/ \E id \in Ids, reply \in NeedReplies : SummaryCheckReturns(id, reply)
  \/ \E id \in Ids, reply \in SummarizeReplies : SummarizeReturns(id, reply)

SpecSettings == Init /\ [][NextSettings]_vars

----------------------------------------------------------------------------
(* SpecConnect: connecting, disconnecting and connecting again, around the   *)
(* ingestion of SpecSilent.                                                 *)

\* Mutant of DisconnectRequest: the store goes with the connection.
DisconnectRequestClearsStore(ok) ==
  /\ client # Null
  /\ ok
  /\ client' = Null
  /\ isConnected' = FALSE
  /\ guildLookup' = << >>
  /\ notifications' = << >>
  /\ UNCHANGED <<readyPc, settings, service, tasks, nextId, sent, insertLog,
                 summaryCb, pageReply, call, renderer>>

\* client.on('disconnect'): the transport of the connected client has closed.
\* The flag and the lookup table are reset; the handle is kept.
OnDisconnect ==
  /\ client = "ready"
  /\ client' = "closed"
  /\ isConnected' = FALSE
  /\ guildLookup' = << >>
  /\ UNCHANGED <<notifications, readyPc, settings, service, tasks, nextId,
                 sent, insertLog, summaryCb, pageReply, call, renderer>>

\* ipcMain.handle('discord:disconnect') with a client: after
\* await client.destroy() the handle, the flag and the lookup table are
\* reset; when destroy() rejects (ok = FALSE) the catch leaves them.  Without
\* a client the request changes nothing.
DisconnectRequest(ok) ==
  /\ client # Null
  /\ ok
  /\ client' = Null
  /\ isConnected' = FALSE
  /\ guildLookup' = << >>
  /\ UNCHANGED <<notifications, readyPc, settings, service, tasks, nextId,
                 sent, insertLog, summaryCb, pageReply, call, renderer>>

\* Number of events and test notifications in one run of SpecConnect.
ConnectEvents == 2

NextConnect ==
  \/ \E new \in EnableSettings : UpdateSettings(new)
  \/ Connect
  \/ OnReady
  \/ \E ok \in BOOLEAN : ReadyFetched(ok)
  \/ /\ nextId <= ConnectEvents
     /\ \E body \in Bodies, channel \in Channels : NotificationCreate(body, channel)
  \/ /\ nextId <= ConnectEvents
     /\ \E body \in TestBodies : CreateTestNotification(body, FALSE, FALSE)
  \/ BackendAnswers
  \/ OnDisconnect
  \/ \E ok \in BOOLEAN : DisconnectRequest(ok)

SpecConnect == Init /\ [][NextConnect]_vars

----------------------------------------------------------------------------
(* The renderer's notification list (App.jsx), as the ids it displays *)

\* const notificationsPerPage = 10, scaled to the store of the model.
notificationsPerPage == 1

\* Number of events in one run of SpecRenderer.
RendererEvents == 3

\* The ids of a list of records, in order.
IdsOf(s) == [k \in 1..Len(s) |-> s[k].id]

\* loadNotifications(currentPage, append) up to its await: isLoadingMore is
\* set and the page request is sent.
LoadNotifications(r, currentPage, append) ==
  [r EXCEPT !.isLoadingMore = TRUE,
            !.loads = Append(@, [page |-> currentPage, append |-> append])]

\* onConnectionChange(true): setPage(1); loadNotifications(1, false).  The
\* main process sends the message from its ready handler.
InitialLoad ==
  /\ isConnected
  /\ ~renderer.loaded
  /\ renderer' = [LoadNotifications(renderer, 1, FALSE) EXCEPT
                    !.page = 1, !.loaded = TRUE]
  /\ UNCHANGED <<notifications, guildLookup, isConnected, readyPc, settings,
                 service, tasks, nextId, sent, insertLog, summaryCb, pageReply,
                 call, client>>

\* handleLoadMore (the Load More button is rendered while hasMore):
\* if (isLoadingMore) return; setPage(page + 1);
\* loadNotifications(page + 1, true)
HandleLoadMore ==
  /\ renderer.hasMore
  /\ ~renderer.isLoadingMore
  /\ renderer.page < MaxPage
  /\ renderer' = [LoadNotifications(renderer, renderer.page + 1, TRUE) EXCEPT
                    !.page = renderer.page + 1]
  /\ UNCHANGED <<notifications, guildLookup, isConnected, readyPc, settings,
                 service, tasks, nextId, sent, insertLog, summaryCb, pageReply,
                 call, client>>

\* The oldest pending page request is served by
\* 'discord:get-notifications-page' and loadNotifications resumes with the
\* result: the page replaces the list or is appended to it.  The reply
\* travels on the channel of the arrival announcements, behind those sent
\* before it.
PageReturns ==
  /\ renderer.loads # << >>
  /\ renderer.received = Len(insertLog)
  /\ LET load == Head(renderer.loads)
         startIndex == PageStart(load.page, notificationsPerPage)
         endIndex == load.page * notificationsPerPage
         result == IdsOf(Slice(notifications, startIndex, endIndex))
     IN /\ pageReply' = [notifications |-> Slice(notifications, startIndex, endIndex),
                          hasMore |-> endIndex < Len(notifications),
                          total |-> Len(notifications)]
        /\ renderer' = [renderer EXCEPT
                          !.displayed = IF load.append THEN @ \o result ELSE result,
                          !.hasMore = endIndex < Len(notifications),
                          !.isLoadingMore = FALSE,
                          !.loads = Tail(@)]
  /\ UNCHANGED <<notifications, guildLookup, isConnected, readyPc, settings,
                 service, tasks, nextId, sent, insertLog, summaryCb, call, client>>

\* onNotification(notification): the next arrival announcement is received
\* and its record is put at the top of the list.
OnNotification ==
  /\ renderer.received < Len(insertLog)
  /\ renderer' = [renderer EXCEPT
                    !.displayed = <<insertLog[renderer.received + 1]>> \o @,
                    !.received = @ + 1]
  /\ UNCHANGED <<notifications, guildLookup, isConnected, readyPc, settings,
                 service, tasks, nextId, sent, insertLog, summaryCb, pageReply,
                 call, client>>

NextRenderer ==
  \/ Connect
  \/ OnReady
  \/ \E ok \in BOOLEAN : ReadyFetched(ok)
  \/ /\ nextId <= RendererEvents
     /\ \E body \in TestBodies, channel \in Channels : NotificationCreate(body, channel)
  \/ InitialLoad
  \/ HandleLoadMore
  \/ PageReturns
  \/ OnNotification

SpecRenderer == Init /\ [][NextRenderer]_vars

----------------------------------------------------------------------------
(* The connect request with its reply *)

\* What 'discord:connect' returns, with the client handle the request found
\* and whether the request called client.login.
ConnectReply(before, attempted, success, connected) ==
  [fn |-> "discord:connect", pc |-> "returned", clientBefore |-> before,
   attempted |-> attempted, success |-> success, isConnected |-> connected]

\* ipcMain.handle('discord:connect') up to its return or to
\* await client.login(...): with a client handle it returns { success: true,
\* isConnected } at once; without credentials it returns an error; otherwise
\* it creates the client, registers the handlers and logs in.
ConnectRequest(hasCredentials) ==
  /\ IF client # Null
     THEN /\ call' = ConnectReply(client, FALSE, TRUE, isConnected)
          /\ UNCHANGED client
     ELSE IF ~hasCredentials
     THEN /\ call' = ConnectReply(client, FALSE, FALSE, isConnected)
          /\ UNCHANGED client
     ELSE /\ client' = "login"
          /\ call' = [ConnectReply(client, TRUE, FALSE, isConnected)
                        EXCEPT !.pc = "login"]
  /\ UNCHANGED <<notifications, guildLookup, isConnected, readyPc, settings,
                 service, tasks, nextId, sent, insertLog, summaryCb, pageReply,
                 renderer>>

\* await client.login(...) rejects: the catch returns { success: false,
\* error } and leaves the client handle as it is.
LoginFails ==
  /\ client = "login"
  /\ client' = "failed"
  /\ call' = ConnectReply(Null, TRUE, FALSE, isConnected)
  /\ UNCHANGED <<notifications, guildLookup, isConnected, readyPc, settings,
                 service, tasks, nextId, sent, insertLog, summaryCb, pageReply,
                 renderer>>

NextLogin ==
  \/ \E new \in EnableSettings : UpdateSettings(new)
  \/ \E hasCredentials \in BOOLEAN : ConnectRequest(hasCredentials)
  \/ LoginFails
  \/ OnReady
  \/ \E ok \in BOOLEAN : ReadyFetched(ok)
  \/ /\ nextId <= ConnectEvents
     /\ \E body \in Bodies, channel \in Channels : NotificationCreate(body, channel)
  \/ BackendAnswers
  \/ OnDisconnect
  \/ \E ok \in BOOLEAN : DisconnectRequest(ok)

SpecLogin == Init /\ [][NextLogin]_vars

----------------------------------------------------------------------------
(* SpecRedeliver: the connector delivers an event a second time.  The       *)
(* handler has no memory of the message ids it has seen, so the second       *)
(* delivery is processed as the first was.                                  *)

\* Number of events and test notifications in one run of SpecRedeliver, and
\* the number of insertions (first deliveries and repeated ones).
RedeliverEvents == 2
MaxDeliveries == 3

\* client.on('NOTIFICATION_CREATE', async (data) => ...) with the message id
\* of an event delivered before, whose first handler has ended: the same
\* body and channel go through processNotification again, with the lookup
\* table as it is now.
NotificationRedelivered(id) ==
  /\ isConnected
  /\ id < nextId
  /\ tasks[id].path = "event"
  /\ tasks[id].pc = "done"
  /\ Len(insertLog) < MaxDeliveries
  /\ Cardinality(Processing) < MaxInFlight
  /\ LET channel == tasks[id].channelId
         isDM == IsDM(guildLookup, channel)
         t == [NoTask EXCEPT
                 !.path = "event", !.body = tasks[id].body, !.isDM = isDM,
                 !.channelId = channel,
                 !.serverName =
                    IF isDM THEN "Direct Message"
                    ELSE GetServerFromChannel(guildLookup, channel).server,
                 !.isUnknown = IsUnknown(guildLookup, channel),
                 !.serverId =
                    IF IsUnknown(guildLookup, channel) THEN ""
                    ELSE GetServerFromChannel(guildLookup, channel).serverid,
                 !.channelName =
                    IF IsUnknown(guildLookup, channel) THEN ""
                    ELSE GetServerFromChannel(guildLookup, channel).channel,
                 !.nick = Nick]
     IN Commit(ProcessNotification([Now EXCEPT !.t[id] = t], id))
  /\ UNCHANGED <<guildLookup, isConnected, readyPc, settings, service, nextId,
                 pageReply, call, client, renderer>>

NextRedeliver ==
  \/ \E new \in EnableSettings : UpdateSettings(new)
  \/ Connect
  \/ OnReady
  \/ \E ok \in BOOLEAN : ReadyFetched(ok)
  \/ /\ nextId <= RedeliverEvents
     /\ \E body \in Bodies, channel \in Channels : NotificationCreate(body, channel)
  \/ /\ nextId <= RedeliverEvents
     /\ \E body \in TestBodies : CreateTestNotification(body, FALSE, FALSE)
  \/ \E id \in Ids : NotificationRedelivered(id)
  \/ BackendAnswers

SpecRedeliver == Init /\ [][NextRedeliver]_vars

----------------------------------------------------------------------------
(* A repeated delivery while the summary of the first delivery is awaited *)

DuplicateEvents == 2

\* client.on('NOTIFICATION_CREATE', async (data) => ...) with the message id
\* of an event whose record is stored and whose summary is still awaited,
\* delivered after enrichment was switched off: processNotification skips the
\* enrichment block, so the handler builds, inserts and announces the second
\* record in the turn of the delivery.  The first delivery's summary request
\* stays in flight.
NotificationRedeliveredWhilePending(id) ==
  /\ isConnected
  /\ id < nextId
  /\ tasks[id].path = "event"
  /\ tasks[id].pc \in {"sumcheck", "summarize"}
  /\ ~(settings.enableSummarization /\ IsEnabled(service))
  /\ Len(insertLog) < MaxDeliveries
  /\ LET channel == tasks[id].channelId
         isDM == IsDM(guildLookup, channel)
         t == [NoTask EXCEPT
                 !.path = "event", !.body = tasks[id].body, !.isDM = isDM,
                 !.channelId = channel,
                 !.serverName =
                    IF isDM THEN "Direct Message"
                    ELSE GetServerFromChannel(guildLookup, channel).server,
                 !.isUnknown = IsUnknown(guildLookup, channel),
                 !.serverId =
                    IF IsUnknown(guildLookup, channel) THEN ""
                    ELSE GetServerFromChannel(guildLookup, channel).serverid,
                 !.channelName =
                    IF IsUnknown(guildLookup, channel) THEN ""
                    ELSE GetServerFromChannel(guildLookup, channel).channel,
                 !.nick = Nick]
     IN Commit(HandlerInsert(Now, BuildNotification(id, t, FALSE)))
  /\ UNCHANGED <<guildLookup, isConnected, readyPc, settings, service, nextId,
                 pageReply, call, client, renderer>>

NextDuplicate ==
  \/ \E new \in EnableSettings : UpdateSettings(new)
  \/ Connect
  \/ OnReady
  \/ \E ok \in BOOLEAN : ReadyFetched(ok)
  \/ /\ nextId <= DuplicateEvents
     /\ \E body \in Bodies, channel \in Channels : NotificationCreate(body, channel)
  \/ \E id \in Ids : NotificationRedeliveredWhilePending(id)
  \/ BackendAnswers

SpecDuplicate == Init /\ [][NextDuplicate]_vars

----------------------------------------------------------------------------
(* SpecConcurrent: events and page requests that arrive while the call of   *)
(* an earlier record waits for the backend.                                 *)

\* Number of events and test notifications in one run of SpecConcurrent.
ConcurrentEvents == 2

NextConcurrent ==
  \/ \E new \in EnableSettings : UpdateSettings(new)
  \/ Connect
  \/ OnReady
  \/ \E ok \in BOOLEAN : ReadyFetched(ok)
  \/ /\ nextId <= ConcurrentEvents
     /\ \E body \in Bodies, channel \in Channels : NotificationCreate(body, channel)
  \/ /\ nextId <= ConcurrentEvents
     /\ \E body \in TestBodies : CreateTestNotification(body, FALSE, FALSE)
  \/ BackendAnswers
  \/ \E page \in 1..MaxPage : GetNotificationsPage(page, 1)

SpecConcurrent == Init /\ [][NextConcurrent]_vars

----------------------------------------------------------------------------
(* SpecValidate and SpecTimes: OpenAIService.validateEventDetails on the     *)
(* object that JSON.parse made of the backend's reply.  A text is the        *)
(* sequence of its characters, so that the regular expressions of the        *)
(* source are matched character by character.  A field of the object is a   *)
(* JavaScript value: undefined, a string or a number.  The clock and the    *)
(* start of the event are local time in minutes; the clock stands at the    *)
(* start of its minute.                                                     *)

Str(s) == [type |-> "string", chars |-> s]
Undefined == [type |-> "undefined", chars |-> << >>]

\* A non-zero number, where the prompt asks for a string.
ANumber == [type |-> "number", chars |-> << >>]

\* ToBoolean of a field: undefined and '' are falsy.
JsTruthy(v) == v.type = "number" \/ (v.type = "string" /\ v.chars # << >>)

Digits == <<"0", "1", "2", "3", "4", "5", "6", "7", "8", "9">>

\* \d, [0-5] and \s of the regular expressions
IsDigit(c) == \E d \in 1..10 : Digits[d] = c
IsDigitTo5(c) == \E d \in 1..6 : Digits[d] = c
IsSpace(c) == c \in {" ", "\t", "\n"}

\* parseInt(text, 10) of a text of digits
ParseInt(s) ==
  LET DigitValue(c) == (CHOOSE d \in 1..10 : Digits[d] = c) - 1
      RECURSIVE Value(_)
      Value(n) == IF n = 0 THEN 0 ELSE 10 * Value(n - 1) + DigitValue(s[n])
  IN Value(Len(s))

\* n.toString().padStart(2, '0') for 0 <= n < 100
PadStart2(n) == <<Digits[(n \div 10) + 1], Digits[(n % 10) + 1]>>

\* String.prototype.trim
TrimText(s) ==
  LET kept == {i \in 1..Len(s) : ~IsSpace(s[i])} IN
  IF kept = {} THEN << >>
  ELSE SubSeq(s, CHOOSE i \in kept : \A j \in kept : i <= j,
                 CHOOSE i \in kept : \A j \in kept : i >= j)

\* /^(1[0-2]|0?[1-9]):[0-5][0-9](:[0-5][0-9])?\s*[AaPp][Mm]$/ with hl the
\* length of the hour and sec the length of the seconds group
TwelveHourShape(s, hl, sec) ==
  /\ Len(s) >= hl + 3 + sec + 2
  /\ \/ hl = 2 /\ s[1] = "1" /\ s[2] \in {"0", "1", "2"}
     \/ hl = 2 /\ s[1] = "0" /\ IsDigit(s[2]) /\ s[2] # "0"
     \/ hl = 1 /\ IsDigit(s[1]) /\ s[1] # "0"
  /\ s[hl + 1] = ":"
  /\ IsDigitTo5(s[hl + 2])
  /\ IsDigit(s[hl + 3])
  /\ sec = 3 => s[hl + 4] = ":" /\ IsDigitTo5(s[hl + 5]) /\ IsDigit(s[hl + 6])
  /\ \A i \in (hl + 4 + sec)..(Len(s) - 2) : IsSpace(s[i])
  /\ s[Len(s) - 1] \in {"A", "a", "P", "p"}
  /\ s[Len(s)] \in {"M", "m"}

IsTwelveHour(s) == \E hl \in {1, 2}, sec \in {0, 3} : TwelveHourShape(s, hl, sec)

\* Mutant of ToTwentyFourHour: the hour is not taken modulo 12.
ToTwentyFourHourNoModulo(s) ==
  LET hl == CHOOSE n \in {1, 2} : s[n + 1] = ":"
      hours == SubSeq(s, 1, hl)
      minutes == SubSeq(s, hl + 2, hl + 3)
      hr == ParseInt(hours) + (IF s[Len(s) - 1] \in {"P", "p"} THEN 12 ELSE 0)
  IN PadStart2(hr) \o <<":">> \o minutes

\* The groups of /^(\d{1,2}):(\d{2})(?::(\d{2}))?\s*([AaPp][Mm])$/ on a text
\* that IsTwelveHour, and  hr = parseInt(hours, 10) % 12 + (pm ? 12 : 0);
\* time = `${hr.toString().padStart(2, '0')}:${minutes}`
ToTwentyFourHour(s) ==
  LET hl == CHOOSE n \in {1, 2} : s[n + 1] = ":"
      hours == SubSeq(s, 1, hl)
      minutes == SubSeq(s, hl + 2, hl + 3)
      hr == (ParseInt(hours) % 12) + (IF s[Len(s) - 1] \in {"P", "p"} THEN 12 ELSE 0)
  IN PadStart2(hr) \o <<":">> \o minutes

\* time = time.trim(); if (time.match(12-hour)) time = the 24-hour text
NormalizeTime(s) ==
  LET time == TrimText(s) IN
  IF IsTwelveHour(time) THEN ToTwentyFourHour(time) ELSE time

\* /^([01]\d|2[0-3]):([0-5]\d)$/
IsTime(s) ==
  /\ Len(s) = 5
  /\ \/ s[1] \in {"0", "1"} /\ IsDigit(s[2])
     \/ s[1] = "2" /\ s[2] \in {"0", "1", "2", "3"}
  /\ s[3] = ":"
  /\ IsDigitTo5(s[4])
  /\ IsDigit(s[5])

\* /^\d{4}-\d{2}-\d{2}$/
IsDate(s) ==
  /\ Len(s) = 10
  /\ \A i \in {1, 2, 3, 4, 6, 7, 9, 10} : IsDigit(s[i])
  /\ s[5] = "-"
  /\ s[8] = "-"

\* Days from 2000-01-01 to the day before year-month-day, as MakeDay counts
\* them: a day past the end of its month runs into the next month.
DayNumber(year, month, day) ==
  LET leap == (year % 4 = 0 /\ year % 100 # 0) \/ year % 400 = 0
      monthDays == <<31, IF leap THEN 29 ELSE 28, 31, 30, 31, 30, 31, 31, 30, 31, 30, 31>>
      RECURSIVE Before(_)
      Before(m) == IF m = 1 THEN 0 ELSE Before(m - 1) + monthDays[m - 1]
      y == year - 1
      leaps == (y \div 4) - (y \div 100) + (y \div 400) - 484
  IN 365 * (year - 2000) + leaps + Before(month) + day - 1

\* new Date(`${date}T${time}`).getTime() in minutes of local time, for a date
\* that IsDate and a time that IsTime; NaN when the parser of V8 refuses the
\* month (01..12) or the day (01..31).
NaN == -1000000000

EventDate(date, time) ==
  LET year == ParseInt(SubSeq(date, 1, 4))
      month == ParseInt(SubSeq(date, 6, 7))
      day == ParseInt(SubSeq(date, 9, 10))
  IN IF month \notin 1..12 \/ day \notin 1..31 THEN NaN
     ELSE DayNumber(year, month, day) * 1440
            + ParseInt(SubSeq(time, 1, 2)) * 60 + ParseInt(SubSeq(time, 4, 5))

\* The clock at year-month-day hour:minute.
Clock(year, month, day, hour, minute) ==
  DayNumber(year, month, day) * 1440 + hour * 60 + minute

\* The object after a TypeError: the catch block does not look at it.
Thrown == [threw |-> TRUE]

\* What validateEventDetails returns, and the object as it left it.
Rejected(e) == [ok |-> FALSE, threw |-> FALSE, details |-> e]
Accepted(e) == [ok |-> TRUE, threw |-> FALSE, details |-> e]

\* if (eventDetails.endTime) { ... }: a text that is not a time after the
\* conversion is replaced by ''.  endTime.trim() throws on a value that is
\* not a string.
CheckEndTime(e) ==
  IF ~JsTruthy(e.endTime) THEN e
  ELSE IF e.endTime.type # "string" THEN Thrown
  ELSE LET endTime == NormalizeTime(e.endTime.chars) IN
       [e EXCEPT !.endTime = IF IsTime(endTime) THEN Str(endTime) ELSE Str(<< >>)]

\* if (eventDetails.endDate) { ... }: a text that is not a date is replaced
\* by the start date.  endDate.match throws on a value that is not a string.
CheckEndDate(e) ==
  IF ~JsTruthy(e.endDate) THEN e
  ELSE IF e.endDate.type # "string" THEN Thrown
  ELSE IF IsDate(e.endDate.chars) THEN e
  ELSE [e EXCEPT !.endDate = e.date]

\* oneHourAgo = new Date(now.getTime() - 60 * 60 * 1000); eventDate < oneHourAgo
StartsInThePast(eventDate, now) == eventDate < now - 60

\* The try block of validateEventDetails; Thrown when it throws.
ValidateEventDetailsTry(e, now) ==
  IF ~JsTruthy(e.title) \/ ~JsTruthy(e.date) \/ ~JsTruthy(e.time) THEN Rejected(e)
  ELSE IF e.date.type # "string" THEN Thrown
  ELSE IF ~IsDate(e.date.chars) THEN Rejected(e)
  ELSE IF e.time.type # "string" THEN Thrown
  ELSE LET time == NormalizeTime(e.time.chars) IN
    IF ~IsTime(time) THEN Rejected(e)
    ELSE LET e1 == CheckEndTime([e EXCEPT !.time = Str(time)]) IN
      IF e1 = Thrown THEN Thrown
      ELSE LET e2 == CheckEndDate(e1) IN
        IF e2 = Thrown THEN Thrown
        ELSE LET eventDate == EventDate(e2.date.chars, e2.time.chars) IN
          IF eventDate = NaN THEN Rejected(e2)
          ELSE IF StartsInThePast(eventDate, now) THEN Rejected(e2)
          ELSE Accepted(e2)

\* validateEventDetails(eventDetails): the catch block returns false.
ValidateEventDetails(e, now) ==
  IF ~e.hasEvent THEN Rejected(e)
  ELSE LET r == ValidateEventDetailsTry(e, now) IN
       IF r = Thrown THEN Rejected(e) ELSE r


\* The fields of the parsed reply, by the cases the code tells apart.
Titles ==
  { Str(<<"T">>), Str(<< >>), Undefined }

\* Dates: on the day of the clock, at the end of a month, past the end of a
\* month, with a month or a day that does not exist, in another notation.
Dates ==
  { Str(<<"2", "0", "2", "5", "-", "0", "6", "-", "1", "5">>),
    Str(<<"2", "0", "2", "5", "-", "0", "2", "-", "2", "8">>),
    Str(<<"2", "0", "2", "5", "-", "0", "2", "-", "3", "0">>),
    Str(<<"2", "0", "2", "5", "-", "1", "3", "-", "0", "1">>),
    Str(<<"2", "0", "2", "5", "-", "0", "6", "-", "0", "0">>),
    Str(<<"1", "5", "/", "0", "6", "/", "2", "0", "2", "5">>),
    Str(<<"2", "0", "2", "5", "-", "6", "-", "1", "5">>),
    Undefined,
    ANumber }

\* Times: 24-hour, 12-hour (with and without seconds, in either case), with
\* spaces around, with seconds, out of range, without minutes.
Times ==
  { Str(<<"1", "4", ":", "3", "0">>),
    Str(<<"2", ":", "3", "0", " ", "P", "M">>),
    Str(<<" ", "1", "4", ":", "3", "0", " ">>),
    Str(<<"1", "2", ":", "1", "5", " ", "a", "m">>),
    Str(<<"2", ":", "3", "0", ":", "4", "5", " ", "P", "M">>),
    Str(<<"1", "4", ":", "3", "0", ":", "0", "0">>),
    Str(<<"2", "4", ":", "0", "0">>),
    Str(<<"2", "p", "m">>),
    Str(<<"1", "3", ":", "0", "0", " ", "P", "M">>),
    Str(<<"2", "3", ":", "4", "5">>),
    Undefined,
    ANumber }

EndTimes ==
  { Undefined,
    Str(<< >>),
    Str(<<"1", "6", ":", "0", "0">>),
    Str(<<"4", ":", "0", "0", " ", "P", "M">>),
    Str(<<"l", "a", "t", "e">>),
    ANumber }

EndDates ==
  { Undefined,
    Str(<< >>),
    Str(<<"2", "0", "2", "5", "-", "0", "6", "-", "1", "6">>),
    Str(<<"t", "o", "m", "o", "r", "r", "o", "w">>),
    ANumber }

\* The clock: the day before the dated events, one hour and one hour and a
\* minute after the event of 14:30, and 45 minutes after the event of 23:45
\* on the last day of February.
Clocks ==
  { Clock(2025, 6, 14, 9, 0), Clock(2025, 6, 15, 15, 30), Clock(2025, 6, 15, 15, 31),
    Clock(2025, 3, 1, 0, 30) }

\* The objects validated: every combination of the fields above with
\* hasEvent set, and one object without it.
EventInputs ==
  { e \in [hasEvent : BOOLEAN, title : Titles, date : Dates, time : Times,
           endTime : EndTimes, endDate : EndDates] :
      ~e.hasEvent => /\ e.title = Str(<<"T">>)
                     /\ e.date = Str(<<"2", "0", "2", "5", "-", "0", "6", "-", "1", "5">>)
                     /\ e.time = Str(<<"1", "4", ":", "3", "0">>)
                     /\ e.endTime = Undefined
                     /\ e.endDate = Undefined }

\* The state outside the call.
InitIdle ==
  /\ renderer = NoRenderer
  /\ notifications = << >>
  /\ guildLookup = << >>
  /\ isConnected = FALSE
  /\ readyPc = "idle"
  /\ settings = [openaiApiKey |-> "",
                 openaiApiEndpoint |-> DefaultEndpoint,
                 enableSummarization |-> TRUE,
                 summaryDetectionMode |-> "length",
                 minLengthForSummary |-> DEFAULT_MIN_LENGTH]
  /\ service = [enabled |-> TRUE,
                apiKey |-> "",
                apiEndpoint |-> DefaultEndpoint,
                detectionMode |-> "length",
                minLength |-> DEFAULT_MIN_LENGTH]
  /\ tasks = [i \in Ids |-> NoTask]
  /\ nextId = 1
  /\ sent = [i \in Ids |-> << >>]
  /\ insertLog = << >>
  /\ summaryCb = [i \in Ids |-> NoCallback]
  /\ pageReply = NoPage
  /\ client = Null

InitValidate ==
  /\ InitIdle
  /\ call \in {[fn |-> "validateEventDetails", pc |-> "called", input |-> e,
                now |-> n, ok |-> FALSE, details |-> e] :
                 e \in EventInputs, n \in Clocks}

\* extractEventDetails after JSON.parse: this.validateEventDetails(eventDetails)
\* with the clock at call.now; ok is what it returned, details the object as
\* validation left it.
Validate ==
  /\ call.pc = "called"
  /\ LET r == ValidateEventDetails(call.input, call.now) IN
     call' = [call EXCEPT !.pc = "returned", !.ok = r.ok, !.details = r.details]
  /\ AdapterUnchanged

SpecValidate == InitValidate /\ [][Validate]_vars

\* The 12-hour text of hour h (padded with 0 or not) and minute mm, with
\* the spaces sp before the suffix, and the 24-hour text of h and mm.
TwelveHourText(h, pad, mm, sp, suffix) ==
  (IF pad \/ h >= 10 THEN PadStart2(h) ELSE <<Digits[h + 1]>>)
    \o <<":">> \o PadStart2(mm) \o sp \o suffix

TwentyFourHourText(h, mm) == PadStart2(h) \o <<":">> \o PadStart2(mm)

\* Every time of day, written in 12-hour and in 24-hour form, with the hour,
\* the minute and the half of the day that the text says.
TimeInputs ==
  { [text |-> TwelveHourText(h, pad, mm, sp, suffix), twelve |-> TRUE, h |-> h,
     mm |-> mm, pm |-> suffix[1] \in {"P", "p"}] :
      h \in 1..12, pad \in BOOLEAN, mm \in 0..59, sp \in {<< >>, <<" ">>},
      suffix \in {<<"A", "M">>, <<"P", "M">>, <<"a", "m">>, <<"p", "m">>} }
  \cup
  { [text |-> TwentyFourHourText(h, mm), twelve |-> FALSE, h |-> h, mm |-> mm,
     pm |-> h >= 12] : h \in 0..23, mm \in 0..59 }

\* An event of the day after the clock, at each of the times.
InitTimes ==
  /\ InitIdle
  /\ call \in {[fn |-> "validateEventDetails", pc |-> "called",
                input |-> [hasEvent |-> TRUE, title |-> Str(<<"T">>),
                           date |-> Str(<<"2", "0", "2", "5", "-", "0", "6", "-", "1", "5">>),
                           time |-> Str(t.text), endTime |-> Undefined,
                           endDate |-> Undefined],
                said |-> t, now |-> Clock(2025, 6, 14, 9, 0), ok |-> FALSE,
                details |-> Undefined] : t \in TimeInputs}

SpecTimes == InitTimes /\ [][Validate]_vars

----------------------------------------------------------------------------
(* Properties *)

Range(seq) == {seq[k] : k \in 1..Len(seq)}

\* The announcements of one kind sent for id, in order.
SentOfKind(id, kind) == SelectSeq(sent[id], LAMBDA a : a.kind = kind)

\* The stored record of id (id is in the store).
Stored(id) == notifications[FindIndex(notifications, id)]

InFlight(id) ==
  tasks[id].pc \in {"extract", "categorize", "needcheck", "sumcheck", "summarize"}

\* C1: the store never holds more than MAX_NOTIFICATIONS records and its
\* size is min(MAX_NOTIFICATIONS, number of records inserted so far).
C1_SizeWithinCapacity ==
  /\ Len(notifications) <= MAX_NOTIFICATIONS
  /\ Len(notifications) = Min(MAX_NOTIFICATIONS, Len(insertLog))

\* C2: of two stored records made from connector events, the one received
\* later (the larger id) is nearer the head.
C2_ArrivalOrder ==
  \A i, j \in 1..Len(notifications) :
    /\ i < j
    /\ tasks[notifications[i].id].path = "event"
    /\ tasks[notifications[j].id].path = "event"
    => notifications[i].id > notifications[j].id

\* C3: the store holds exactly the min(MAX_NOTIFICATIONS, n) most recently
\* inserted records, newest first, and once more than MAX_NOTIFICATIONS
\* records were inserted the first one is not found by id.
C3_KeepsMostRecent ==
  LET n == Len(insertLog)
      k == Min(MAX_NOTIFICATIONS, n)
  IN /\ Len(notifications) = k
     /\ \A p \in 1..Min(k, Len(notifications)) :
          notifications[p].id = insertLog[n - p + 1]
     /\ n > MAX_NOTIFICATIONS => FindIndex(notifications, insertLog[1]) = 0

C5_ArrivedFirst ==
  \A id \in Ids :
    \A k \in 1..Len(sent[id]) :
      sent[id][k].kind # "notification"
      => \E j \in 1..(k - 1) : sent[id][j].kind = "notification"

\* C6: for every stored record, summaryPending implies summary = null, a
\* non-null summary implies summaryPending = false, and a record that the
\* callback resolved as cancelled keeps summary = null.
C6_SummaryFlagConsistent ==
  \A k \in 1..Len(notifications) :
    LET n == notifications[k]
        cb == summaryCb[n.id]
    IN /\ n.summaryPending => n.summary = Null
       /\ n.summary # Null => ~n.summaryPending
       /\ cb.ran /\ cb.found /\ ~Truthy(cb.result) => n.summary = Null

C6_Witness ==
  \E i, j \in 1..Len(notifications) :
    /\ notifications[i].summary = "X"
    /\ summaryCb[notifications[j].id].ran
    /\ summaryCb[notifications[j].id].wasPending
    /\ notifications[j].summary = Null

\* C7: a stored record with summaryPending = true is resolved eventually when
\* every backend request returns.  Only the record's own summary callback
\* clears the flag, so the record must have a summarize-path request in
\* flight for as long as it is stored with the flag set.
C7_PendingIsResolved ==
  \A k \in 1..Len(notifications) :
    notifications[k].summaryPending
    => tasks[notifications[k].id].pc \in {"sumcheck", "summarize"}

\* The single summary-update announcement of a record whose callback ran.
ResolvedAs(id, a) == SentOfKind(id, "summary-update") = <<a>>

\* C8 as stated: for a record that was stored and pending when its summarize
\* outcome came back, a non-null text t gives summary = t, summaryPending =
\* false and the announcement {id, summary: t}; null gives summary = null,
\* summaryPending = false and {id, summary: null, cancelled: true}.
C8_MirrorsNonNull ==
  \A id \in Ids :
    LET cb == summaryCb[id] IN
    cb.ran /\ cb.wasPending /\ id \in StoreIds(notifications)
    => IF cb.result # Null
       THEN /\ Stored(id).summary = cb.result
            /\ ~Stored(id).summaryPending
            /\ ResolvedAs(id, SummaryUpdate(id, cb.result, FALSE))
       ELSE /\ Stored(id).summary = Null
            /\ ~Stored(id).summaryPending
            /\ ResolvedAs(id, SummaryUpdate(id, Null, TRUE))

\* C8 amended: the success case is a non-empty text; null, the empty string
\* and every failure give the cancelled outcome.
C8_MirrorsNonEmpty ==
  \A id \in Ids :
    LET cb == summaryCb[id] IN
    cb.ran /\ cb.wasPending /\ id \in StoreIds(notifications)
    => IF cb.result # Null /\ cb.result # ""
       THEN /\ Stored(id).summary = cb.result
            /\ ~Stored(id).summaryPending
            /\ ResolvedAs(id, SummaryUpdate(id, cb.result, FALSE))
       ELSE /\ Stored(id).summary = Null
            /\ ~Stored(id).summaryPending
            /\ ResolvedAs(id, SummaryUpdate(id, Null, TRUE))

C8_Witness ==
  \E id, other \in Ids :
    /\ id \in StoreIds(notifications) /\ other \in StoreIds(notifications)
    /\ summaryCb[id].wasPending /\ summaryCb[id].result = "X"
    /\ summaryCb[other].wasPending /\ summaryCb[other].result = ""

\* C9: a record gets at most one summary-update announcement, exactly one
\* once the summarize call of a record that entered the pending state has
\* returned, none before that, and none if it never was pending.
C9_OneSummaryUpdate ==
  \A id \in Ids :
    LET c == Len(SentOfKind(id, "summary-update")) IN
    /\ c <= 1
    /\ tasks[id].summaryPending /\ tasks[id].pc = "done" => c = 1
    /\ tasks[id].pc \in {"sumcheck", "summarize"} => c = 0
    /\ ~tasks[id].summaryPending => c = 0

C9_Witness ==
  \E id, other \in Ids :
    /\ tasks[id].pc = "done" /\ tasks[id].summaryPending
    /\ Len(SentOfKind(id, "summary-update")) = 1
    /\ tasks[other].pc = "done" /\ ~tasks[other].summaryPending
    /\ Len(SentOfKind(other, "summary-update")) = 0

\* The summary callback of id runs in this step.
CallbackRuns(id) == ~summaryCb[id].ran /\ summaryCb'[id].ran

\* C10: a summary result for an id that was inserted and is no longer stored
\* leaves the store exactly as it was.
C10_StaleResultLeavesStore ==
  [][\A id \in Ids :
       CallbackRuns(id) /\ id \in Range(insertLog) /\ id \notin StoreIds(notifications)
       => notifications' = notifications]_vars

C10_Witness ==
  \E id \in Ids :
    /\ summaryCb[id].ran
    /\ ~summaryCb[id].found
    /\ sent[id][1].kind = "notification"
    /\ Len(notifications) = MAX_NOTIFICATIONS

\* C11: when the summary callback of an id runs after the record was inserted
\* and announced and finds the record no longer stored, no summary-update
\* announcement is sent for that id.
C11_NoAnnouncementWhenEvicted ==
  \A id \in Ids :
    /\ summaryCb[id].ran
    /\ ~summaryCb[id].found
    /\ Len(sent[id]) > 0
    /\ sent[id][1].kind = "notification"
    => SentOfKind(id, "summary-update") = << >>

\* The record of id in store s (id is in s).
RecordOf(s, id) == s[FindIndex(s, id)]

\* The step ingests the raw event or test notification numbered id.
Ingests(id) == nextId = id /\ nextId' = id + 1

\* C12: a well-formed event or test notification ingested while the enable
\* flag is off or the endpoint is blank makes no backend request and its
\* record is stored with summaryPending = false, summary = null and no
\* category, whatever its body; and the record of a processing that has ended
\* without a pending summary keeps these fields for as long as it is stored.
C12_DisabledStaysPlain ==
  [][\A id \in Ids :
       /\ Ingests(id)
          /\ ~(settings.enableSummarization /\ IsEnabled(service))
          /\ ~tasks'[id].body.missing
          => /\ tasks'[id].pc = "done"
             /\ id \in StoreIds(notifications')
             /\ LET n == RecordOf(notifications', id) IN
                  /\ ~n.summaryPending
                  /\ n.summary = Null
                  /\ n.category = Null
                  /\ n.importance = Null
             /\ \A k \in 1..Len(sent'[id]) :
                  /\ sent'[id][k].kind # "summary-update"
                  /\ sent'[id][k].category = Null
                  /\ ~sent'[id][k].summaryPending
       /\ tasks[id].pc = "done"
          /\ ~tasks[id].summaryPending
          /\ id \in StoreIds(notifications)
          /\ id \in StoreIds(notifications')
          => /\ tasks'[id] = tasks[id]
             /\ RecordOf(notifications', id) = RecordOf(notifications, id)
             /\ sent'[id] = sent[id]]_vars

\* Records with a 500-character body stored without a pending summary (the
\* threshold is 100: they were ingested with enrichment off), one of an
\* event and one of a test notification, while the flag is on and the
\* endpoint is blank.
C12_Witness ==
  /\ settings.enableSummarization
  /\ service.enabled
  /\ service.apiEndpoint = BlankEndpoint
  /\ \E id, other \in Ids :
       /\ tasks[id].path = "event" /\ tasks[other].path = "test"
       /\ \A i \in {id, other} :
            /\ tasks[i].body.len = 500
            /\ tasks[i].pc = "done"
            /\ i \in StoreIds(notifications)
            /\ ~Stored(i).summaryPending
            /\ Stored(i).category = Null

\* C13: a stored record of a direct message (serverName 'Direct Message')
\* has no category and no importance.
C13_DirectMessageUncategorized ==
  \A k \in 1..Len(notifications) :
    notifications[k].serverName = "Direct Message"
    => notifications[k].category = Null /\ notifications[k].importance = Null

\* C14: the origin of a connector event's record is resolved from the lookup
\* table: a channel that a fetched guild has gives that guild's record; a
\* channel that is not found while the table is not empty gives an 'Unknown
\* Server' record that is not a direct message; an empty table gives a
\* direct message.
C14_OriginFromLookup ==
  [][\A id \in Ids :
       Ingests(id) /\ tasks'[id].path = "event"
       => LET t == tasks'[id] IN
          IF \E k \in 1..Len(guildLookup) : t.channelId \in guildLookup[k].channels
          THEN ~t.isDM /\ t.serverName = Guild.name
          ELSE IF Len(guildLookup) > 0
          THEN ~t.isDM /\ t.serverName = "Unknown Server"
          ELSE t.isDM /\ t.serverName = "Direct Message"]_vars

\* C15: a raw event without a message id or without a body is never inserted
\* and never announced.
C15_MalformedRejected ==
  /\ \A k \in 1..Len(notifications) :
       ~notifications[k].body.missing /\ notifications[k].id # NoId
  /\ \A i \in Ids : tasks[i].body.missing => sent[i] = << >>
  /\ NoId \notin Range(insertLog)

\* C18: for page >= 1 and perPage >= 1 a page request returns the first
\* min(page * perPage, total) records of the store in store order, hasMore =
\* (page * perPage < total) and total = the size of the store, and leaves the
\* store as it was.
C18_PageIsPrefix ==
  [][\A page \in 1..MaxPage, perPage \in 1..MaxPage :
       GetNotificationsPage(page, perPage)
       => LET total == Len(notifications) IN
          /\ pageReply'.notifications =
               [k \in 1..Min(page * perPage, total) |-> notifications[k]]
          /\ pageReply'.hasMore = (page * perPage < total)
          /\ pageReply'.total = total
          /\ notifications' = notifications]_vars

\* A page that is a proper prefix of a full store.
C18_Witness ==
  /\ pageReply.hasMore
  /\ pageReply.total = Len(notifications)
  /\ pageReply.total = MAX_NOTIFICATIONS
  /\ Len(pageReply.notifications) = 1
  /\ pageReply.notifications[1] = notifications[1]

\* A call of shouldSummarize that has returned, the service being enabled
\* with the given detection mode.
ShouldSummarizeReturned(mode) ==
  /\ call.fn = "shouldSummarize"
  /\ call.pc = "returned"
  /\ IsEnabled(service)
  /\ service.detectionMode = mode

\* C16 as stated: in length mode with enrichment enabled shouldSummarize
\* returns true exactly when len(body) >= minLength, for every body.
C16_LengthModeEveryBody ==
  ShouldSummarizeReturned("length")
  => (call.result = "true") = (call.body.len >= service.minLength)

\* C16 amended: for a body that has a character other than white space the
\* result is true exactly when len(body) >= minLength; for a missing, empty
\* or white-space-only body it is false whatever the length.
C16_LengthModeNonBlankBody ==
  ShouldSummarizeReturned("length")
  => /\ call.result \in {"true", "false"}
     /\ call.reply = "none"
     /\ (call.result = "true") =
          (~call.body.blank /\ call.body.len >= service.minLength)

\* A text of exactly the threshold is to be summarized.
C16_Witness ==
  /\ ShouldSummarizeReturned("length")
  /\ ~call.body.blank
  /\ call.body.len = service.minLength
  /\ call.result = "true"

\* C17: in smart mode, when the need-check request fails (transport error,
\* status not OK, or a reply without a usable choice), shouldSummarize
\* returns what the length check gives for the same body and minLength.
C17_SmartFallsBackToLength ==
  ShouldSummarizeReturned("smart") /\ call.reply \in FailedReplies
  => (call.result = "true") = (call.body.len >= service.minLength)
     /\ call.result \in {"true", "false"}

\* A failed need check on a text over the threshold.
C17_Witness ==
  /\ ShouldSummarizeReturned("smart")
  /\ call.reply = "transport-error"
  /\ call.body.len >= service.minLength
  /\ call.result = "true"

C20_EveryRequestEnds ==
  \A id \in Ids : InFlight(id) ~> tasks[id].pc = "done"

\* C21 as stated: after 'discord:update-settings' the adapter's configuration
\* is the stored settings, field by field: credential, endpoint, enable flag,
\* detection mode and length threshold.
C21_AdapterFollowsSettings ==
  /\ service.apiKey = settings.openaiApiKey
  /\ service.apiEndpoint = settings.openaiApiEndpoint
  /\ service.enabled = settings.enableSummarization
  /\ service.detectionMode = settings.summaryDetectionMode
  /\ service.minLength = settings.minLengthForSummary


\* C22: a connector disconnect, the 'disconnect' event or a disconnect
\* request, changes the connection flag, the client handle and the lookup
\* table and nothing else: the store, its order and the settings are as
\* before, and so are the adapter, the calls in flight and their records.
C22_DisconnectKeepsStore ==
  [][(client' # client /\ client' \in {Null, "closed"})
       => /\ ~isConnected' /\ guildLookup' = << >>
          /\ UNCHANGED <<notifications, settings, service, tasks, nextId, sent,
                         insertLog, summaryCb, pageReply>>]_vars

\* A disconnect request has been served and a disconnect event handled with
\* records in the store and changed settings.
C22_Witness ==
  /\ client = Null
  /\ ~isConnected
  /\ guildLookup = << >>
  /\ Len(notifications) = MAX_NOTIFICATIONS
  /\ \E k \in 1..Len(notifications) : tasks[notifications[k].id].path = "event"
  /\ settings.enableSummarization

\* The 'disconnect' event has been handled with records in the store.
C22_WitnessEvent ==
  /\ client = "closed"
  /\ ~isConnected
  /\ guildLookup = << >>
  /\ Len(notifications) = MAX_NOTIFICATIONS


\* C23 as stated: a stored record that carries event details has the
\* category EVENT, and it carries them only when an extract-event reply for
\* that record was validated (which is what fills the eventDetails of its
\* processNotification call).
C23_EventDetailsMeansEvent ==
  \A k \in 1..Len(notifications) :
    notifications[k].eventDetails # Null
      => /\ notifications[k].category = "EVENT"
         /\ tasks[notifications[k].id].eventDetails # Null


\* C24 as stated: for a record that is not a direct message, processed with
\* enrichment enabled, the categorize call and the extract-event call are both
\* issued, neither waited for before the other is issued and each whatever
\* the other returns.  Then, whatever the extract-event reply of such a
\* record is, the categorize call has been issued when it has come.
C24_BothCallsIssued ==
  [][\A id \in Ids :
       (~tasks[id].isDM /\ tasks[id].pc = "extract" /\ tasks'[id].pc # "extract")
         => tasks'[id].pc = "categorize"]_vars


\* C28: in every stored record the category is set exactly when the
\* importance is set.
C28_CategoryWithImportance ==
  \A k \in 1..Len(notifications) :
    (notifications[k].category = Null) <=> (notifications[k].importance = Null)

\* The store holds a record categorized by the backend and a record that the
\* event extraction categorized.
C28_Witness ==
  /\ \E k \in 1..Len(notifications) :
       notifications[k].category = "QUESTION" /\ notifications[k].importance = "HIGH"
  /\ \E k \in 1..Len(notifications) :
       notifications[k].category = "EVENT" /\ notifications[k].importance = "MEDIUM"


\* C29 as stated: no two records of the store have the same id, whatever
\* events are received (an event may be delivered more than once) and
\* whatever test notifications are created.
C29_UniqueIds ==
  \A i, j \in 1..Len(notifications) :
    i # j => notifications[i].id # notifications[j].id


\* C30: while the enrichment of a record waits for the backend, a page
\* request is answered, the next event is received and its handler runs, and
\* the replies of another record's calls are taken: none of them waits for
\* the first record's call to return.
C30_OthersNotBlocked ==
  \A a \in Ids :
    InFlight(a) =>
      /\ \A page \in 1..MaxPage : ENABLED GetNotificationsPage(page, 1)
      /\ (isConnected /\ nextId <= ConcurrentEvents
            /\ Cardinality(Processing) < MaxInFlight)
           => \A body \in Bodies, channel \in Channels :
                ENABLED NotificationCreate(body, channel)
      /\ \A b \in Ids \ {a} :
           /\ tasks[b].pc = "extract" => ENABLED ExtractReturns(b, Null)
           /\ tasks[b].pc = "categorize"
                => \A c \in CategorizeReplies : ENABLED CategorizeReturns(b, c)
           /\ tasks[b].pc = "summarize" => ENABLED SummarizeReturns(b, Null)

\* The first record's extract-event call is still waiting; the event received
\* after it has been inserted and announced, and a page request made since
\* then returned it.
C30_Witness ==
  /\ tasks[1].pc = "extract"
  /\ tasks[2].path = "event"
  /\ 2 \in StoreIds(notifications)
  /\ Arrived(notifications[FindIndex(notifications, 2)]) \in Range(sent[2])
  /\ pageReply.total >= 1
  /\ pageReply.notifications[1].id = 2


\* C27: validation rewrites every 12-hour time h:mm AM/PM, h in 1..12 and mm
\* in 00..59, to the 24-hour HH:MM of the same time of day (12 AM is hour 00,
\* 12 PM hour 12, h PM hour h + 12, h AM hour h) and leaves a time written as
\* 24-hour HH:MM as it is.
C27_TwelveHourRewritten ==
  call.pc = "returned" =>
    LET t == call.said
        hour == IF ~t.twelve THEN t.h
                ELSE IF t.pm THEN (IF t.h = 12 THEN 12 ELSE t.h + 12)
                ELSE (IF t.h = 12 THEN 0 ELSE t.h)
    IN /\ call.ok
       /\ call.details.time = Str(TwentyFourHourText(hour, t.mm))
       /\ ~t.twelve => call.details.time = call.input.time

\* 12:05 am has become 00:05.
C27_Witness ==
  /\ call.pc = "returned"
  /\ call.said.twelve
  /\ call.said.h = 12
  /\ call.input.time = Str(<<"1", "2", ":", "0", "5", " ", "a", "m">>)
  /\ call.details.time = Str(<<"0", "0", ":", "0", "5">>)

\* The conditions of C25 on an object e at the clock now: hasEvent is set,
\* title, date and time are present, the date is a text YYYY-MM-DD, the time
\* is a text that is HH:MM after the 12-hour normalization, and the start is
\* not more than one hour before the clock.
MandatoryFieldsValid(e) ==
  /\ e.hasEvent
  /\ JsTruthy(e.title) /\ JsTruthy(e.date) /\ JsTruthy(e.time)
  /\ e.date.type = "string" /\ IsDate(e.date.chars)
  /\ e.time.type = "string" /\ IsTime(NormalizeTime(e.time.chars))

StartedOverAnHourAgo(e, now) ==
  LET eventDate == EventDate(e.date.chars, NormalizeTime(e.time.chars)) IN
  eventDate # NaN /\ eventDate < now - 60

\* C25 as stated: validateEventDetails accepts exactly the objects that meet
\* these conditions.
C25_AcceptsIff ==
  call.pc = "returned" =>
    (call.ok <=> (MandatoryFieldsValid(call.input)
                    /\ ~StartedOverAnHourAgo(call.input, call.now)))

\* C26 as stated: whatever endTime and endDate are, the result is the one
\* the object gets with any other endTime and endDate; and in an accepted
\* object a malformed endTime has become '', a malformed endDate the start
\* date, so that endTime is empty or HH:MM and endDate empty or YYYY-MM-DD.
C26_EndFieldsNeverReject ==
  call.pc = "returned" =>
    /\ \A endTime \in EndTimes, endDate \in EndDates :
         ValidateEventDetails([call.input EXCEPT !.endTime = endTime,
                                                 !.endDate = endDate],
                              call.now).ok = call.ok
    /\ call.ok =>
         LET in == call.input
             out == call.details
         IN /\ ~JsTruthy(out.endTime)
                 \/ (out.endTime.type = "string" /\ IsTime(out.endTime.chars))
            /\ ~JsTruthy(out.endDate)
                 \/ (out.endDate.type = "string" /\ IsDate(out.endDate.chars))
            /\ (JsTruthy(in.endTime)
                  /\ ~(in.endTime.type = "string"
                         /\ IsTime(NormalizeTime(in.endTime.chars))))
                 => out.endTime = Str(<< >>)
            /\ (JsTruthy(in.endDate)
                  /\ ~(in.endDate.type = "string" /\ IsDate(in.endDate.chars)))
                 => out.endDate = out.date

\* The origin a stored record shows: a direct message, a channel of a guild
\* of the lookup table, or neither.
IsDirectMessageRecord(n) == n.serverName = "Direct Message"
IsGuildChannelRecord(n) == n.serverName \in {Guild.name, "Test Server"}

\* C31 as stated: a stored record's messageLink is empty exactly when the
\* record is neither a direct message nor a guild-channel record; a
\* guild-channel record links to <serverId>/<channelId>/<id> and a
\* direct-message record to @me/<channelId>/<id>.
C31_LinkFollowsOrigin ==
  \A k \in 1..Len(notifications) :
    LET n == notifications[k]
    IN /\ (n.messageLink = NoLink)
            <=> ~(IsDirectMessageRecord(n) \/ IsGuildChannelRecord(n))
       /\ IsGuildChannelRecord(n)
            => n.messageLink = MessageLink(n.serverId, n.channelId, n.id)
       /\ IsDirectMessageRecord(n)
            => n.messageLink = MessageLink("@me", n.channelId, n.id)

\* C32 as stated: a processing ends with the summarize request having been
\* issued exactly when its need-check (the task's summaryPending, the value
\* shouldSummarize returned to processNotification) was true; the summarize
\* request is the one whose return ends a processing at "summarize".
C32_SummarizeIffNeeded ==
  [][\A id \in Ids :
       (tasks[id].pc # "done" /\ tasks'[id].pc = "done")
         => (tasks'[id].summaryPending <=> tasks[id].pc = "summarize")]_vars

\* The slots whose record has been announced as arrived.
Announced == {i \in Ids : SentOfKind(i, "notification") # << >>}

\* The announcements a step adds for slot i.
NewlySent(i) == SubSeq(sent'[i], Len(sent[i]) + 1, Len(sent'[i]))

\* C33: after every step there are as many arrived announcements as
\* insertions, at most one per event; a step inserts at most one record at
\* the head of the store, and the step that inserts a record announces that
\* record in the same turn, before any other announcement of the turn (the
\* callbacks that change the store in the same turn announce after it); a
\* step that inserts nothing sends no arrived announcement.
C33_ArrivedOncePerInsert ==
  [][/\ \A i \in Ids : Len(SelectSeq(sent'[i], LAMBDA a : a.kind = "notification")) <= 1
     /\ Cardinality(Announced') = Len(insertLog')
     /\ insertLog' # insertLog =>
          /\ Len(insertLog') = Len(insertLog) + 1
          /\ notifications'[1].id = insertLog'[Len(insertLog')]
          /\ \E i \in Ids :
               /\ NewlySent(i) # << >>
               /\ NewlySent(i)[1].kind = "notification"
               /\ NewlySent(i)[1].id = insertLog'[Len(insertLog')]
               /\ \A j \in Ids \ {i} : NewlySent(j) = << >>
     /\ insertLog' = insertLog =>
          \A i \in Ids : \A k \in 1..Len(NewlySent(i)) :
            NewlySent(i)[k].kind # "notification"]_vars

\* C33 witness: a received event and a test notification have both been
\* inserted and announced.
C33_Witness ==
  /\ \E i \in Announced : tasks[i].path = "event" /\ i \in Range(insertLog)
  /\ \E i \in Announced : tasks[i].path = "test" /\ i \in Range(insertLog)

\* The step is the return of the request that ends the summary of id: the
\* summary callback runs in it and nothing else does.
SummaryResultStep(id) ==
  tasks[id].pc \in {"sumcheck", "summarize"} /\ tasks'[id].pc = "done"

\* C34 as stated: the step in which the summary result of an event arrives
\* keeps the size and the order of the store, and changes no record other
\* than the one that was created from that event and is awaiting the summary
\* (id of the event, summaryPending true), of which it changes summary and
\* summaryPending only.
C34_SummaryTouchesOwnRecord ==
  [][\A id \in Ids :
       SummaryResultStep(id) =>
         /\ Len(notifications') = Len(notifications)
         /\ \A k \in 1..Len(notifications) :
              \/ notifications'[k] = notifications[k]
              \/ /\ notifications[k].id = id
                 /\ notifications[k].summaryPending
                 /\ notifications'[k] =
                      [notifications[k] EXCEPT
                         !.summary = notifications'[k].summary,
                         !.summaryPending = notifications'[k].summaryPending]]_vars

\* The identity fields of a record or of its arrived announcement (title,
\* icon and timestamp are copied from the event beside them).
Identity(r) ==
  [id |-> r.id, body |-> r.body, author |-> r.author,
   serverName |-> r.serverName, channelName |-> r.channelName,
   serverId |-> r.serverId, channelId |-> r.channelId,
   messageLink |-> r.messageLink]

\* C35 as stated: a stored record that has been announced as arrived has the
\* identity fields of its arrived announcement.
C35_IdentityKept ==
  \A id \in Ids :
    id \in StoreIds(notifications) /\ SentOfKind(id, "notification") # << >>
      => Identity(Stored(id)) = Identity(SentOfKind(id, "notification")[1])

\* The same for the records of received events only.
C35_IdentityKeptOfEvents ==
  \A id \in Ids :
    tasks[id].path = "event" /\ id \in StoreIds(notifications)
      /\ SentOfKind(id, "notification") # << >>
      => Identity(Stored(id)) = Identity(SentOfKind(id, "notification")[1])

\* C36 as stated: while the application is not connected (from a disconnect
\* event or a served disconnect request until the next ready event, and
\* before the first ready event) the lookup table is empty.
C36_TableEmptyWhileDisconnected ==
  ~isConnected => guildLookup = << >>

\* C37 as stated: a connect request made after a failed login or after a
\* disconnect event (the client handle it finds is "failed" or "closed")
\* calls client.login; and a connect request that returns success while the
\* application is not connected has called client.login or found a login in
\* progress.
C37_ConnectRetries ==
  call.fn = "discord:connect" =>
    /\ call.clientBefore \in {"failed", "closed"} => call.attempted
    /\ (call.pc = "returned" /\ call.success /\ ~call.isConnected)
         => (call.attempted \/ call.clientBefore = "login")

\* The displayed ids that are ids of stored records, in display order.
Shown ==
  SelectSeq(renderer.displayed, LAMBDA id : id \in StoreIds(notifications))

\* C38 as stated: of any two displayed entries of stored records the upper
\* one is the earlier in the store, so that every stored record is displayed
\* at most once and the display follows the store order.
C38_DisplayedOnceInStoreOrder ==
  \A i, j \in 1..Len(Shown) :
    i < j => FindIndex(notifications, Shown[i]) < FindIndex(notifications, Shown[j])

====
